---- MODULE Spec2Model ----
(***************************************************************************)
(* Model of the avito_agent dialogue orchestration graph                   *)
(* (src/src/agent/graph.py, src/src/agent/nodes.py), of the console        *)
(* session that drives it (src/src/integrations/console_interface.py) and  *)
(* of the collaborators the nodes call (slot manager, LLM client wrappers, *)
(* hybrid retriever, catalog).                                             *)
(*                                                                         *)
(* A Python dict with absent keys is a record whose absent keys hold the   *)
(* default the code passes to .get(); Python None is the string "None"     *)
(* (NoPrice for numeric fields); floats in [0,1] are integer percents.     *)
(***************************************************************************)
EXTENDS Integers, Sequences, FiniteSets, TLC

None == "None"
Absent == "<absent>"
NoPrice == 0 - 1

\* ---------------------------------------------------------------- bounds
MaxPlanLen == 2
MaxTurns == 1
MaxEntities == 2
MaxCalls == 2
MaxOffer == 105
MaxSessions == 2

\* ------------------------------------------------------------- constants
MaxRegenerations == 2
ComplexityConfidence == 70
FallbackConfidence == 50

Max(a, b) == IF a >= b THEN a ELSE b
Min(a, b) == IF a <= b THEN a ELSE b

\* ----------------------------------------------------------- slot manager
Intents ==
    {"product_info", "stock_check", "delivery_question", "warranty_question",
     "bargaining", "meeting_planning", "general_question"}

EmptySlots ==
    [product_id |-> None, product_name |-> None, product_color |-> None,
     product_memory |-> None, product_variant |-> None,
     offered_price |-> NoPrice, agreed_price |-> NoPrice,
     meeting_location |-> None, meeting_date |-> None, meeting_time |-> None,
     delivery_service |-> None, delivery_address |-> None, city |-> None]

REQUIREMENTS(intent) ==
    CASE intent = "delivery_question" -> <<"product_id">>
      [] intent = "warranty_question" -> <<"product_id">>
      [] intent = "bargaining" -> <<"product_id", "offered_price">>
      [] intent = "meeting_planning" ->
            <<"product_id", "meeting_location", "meeting_date", "meeting_time">>
      [] OTHER -> <<>>

\* getattr(slots, slot_name) is None
SlotIsNone(slots, name) ==
    IF name \in {"offered_price", "agreed_price"}
    THEN slots[name] = NoPrice
    ELSE slots[name] = None

\* Python truthiness of a string-or-None value
Truthy(v) == v /= None /\ v /= ""

check_slots_completeness_mut_no_substitution(intent, slots) ==
    LET required == REQUIREMENTS(intent)
        IsMissing(name) == SlotIsNone(slots, name)
        missing == SelectSeq(required, IsMissing)
    IN [is_complete |-> Len(missing) = 0, missing |-> missing]

check_slots_completeness_mut_always_complete(intent, slots) ==
    LET required == REQUIREMENTS(intent)
        IsMissing(name) ==
            /\ SlotIsNone(slots, name)
            /\ ~(name = "product_id" /\ Truthy(slots.product_name))
        missing == SelectSeq(required, IsMissing)
    IN [is_complete |-> TRUE, missing |-> missing]

check_slots_completeness(intent, slots) ==
    LET required == REQUIREMENTS(intent)
        IsMissing(name) ==
            /\ SlotIsNone(slots, name)
            /\ ~(name = "product_id" /\ Truthy(slots.product_name))
        missing == SelectSeq(required, IsMissing)
    IN [is_complete |-> Len(missing) = 0, missing |-> missing]

InSeq(x, seq) == \E i \in 1..Len(seq) : seq[i] = x

priority_order ==
    <<"product_id", "offered_price", "meeting_date", "meeting_time", "meeting_location">>

generate_clarification_question(missing) ==
    IF Len(missing) = 0 THEN ""
    ELSE LET hits == SelectSeq(priority_order, LAMBDA s : InSeq(s, missing))
         IN IF Len(hits) > 0 THEN "ask_" \o hits[1] ELSE "ask_" \o missing[1]

\* float(entities["price"]): the numeric strings of the model and their value
PriceTokens == {"0", "80", "100"}
FloatOf(tok) == CASE tok = "0" -> 0 [] tok = "80" -> 80 [] tok = "100" -> 100 [] OTHER -> NoPrice

Has(e, k) == k \in DOMAIN e /\ Truthy(e[k])

extract_slots_from_entities_mut_overwrite(entities, current) ==
    LET Pick(k, old) == IF k \in DOMAIN entities THEN entities[k] ELSE old
    IN [current EXCEPT
          !.product_id = Pick("product_id", @),
          !.product_name = Pick("product_name", @),
          !.product_color = IF Has(entities, "product_color") THEN entities["product_color"]
                            ELSE Pick("color", @),
          !.product_memory = IF Has(entities, "product_memory") THEN entities["product_memory"]
                             ELSE Pick("memory", @),
          !.product_variant = Pick("variant", @),
          !.offered_price = IF Has(entities, "price") /\ entities["price"] \in PriceTokens
                            THEN FloatOf(entities["price"]) ELSE @,
          !.meeting_location = Pick("location", @),
          !.meeting_date = Pick("date", @),
          !.meeting_time = Pick("time", @),
          !.delivery_service = Pick("delivery_service", @),
          !.city = Pick("city", @)]

extract_slots_from_entities(entities, current) ==
    LET Pick(k, old) == IF Has(entities, k) THEN entities[k] ELSE old
    IN [current EXCEPT
          !.product_id = Pick("product_id", @),
          !.product_name = Pick("product_name", @),
          !.product_color = IF Has(entities, "product_color") THEN entities["product_color"]
                            ELSE Pick("color", @),
          !.product_memory = IF Has(entities, "product_memory") THEN entities["product_memory"]
                             ELSE Pick("memory", @),
          !.product_variant = Pick("variant", @),
          !.offered_price = IF Has(entities, "price") /\ entities["price"] \in PriceTokens
                            THEN FloatOf(entities["price"]) ELSE @,
          !.meeting_location = Pick("location", @),
          !.meeting_date = Pick("date", @),
          !.meeting_time = Pick("time", @),
          !.delivery_service = Pick("delivery_service", @),
          !.city = Pick("city", @)]

\* ------------------------------------------------------- dictionaries
NoEntities == [k \in {} |-> ""]
Get(d, k, default) == IF k \in DOMAIN d THEN d[k] ELSE default

\* LangGraph applies a node's partial output key by key; keys that are not
\* channels of AgentState are dropped
Merge(s, upd) == [k \in DOMAIN s |-> IF k \in DOMAIN upd THEN upd[k] ELSE s[k]]

ValidNodes ==
    {"rag_search", "stock_check", "delivery_check", "bargaining",
     "meeting_planning", "generate_response"}
CapabilityNodes == ValidNodes \ {"generate_response"}

NoPlan == [present |-> FALSE, complexity |-> None, plan |-> <<>>]

\* --------------------------------------------------- DeepSeekClient
\* A raw reply of the chat endpoint: the call raised ("chat_error"), the
\* text is not JSON ("bad_json"), or it is a JSON object ("json").
classify_intent(raw) ==
    CASE raw.kind = "chat_error" -> [raised |-> TRUE, result |-> NoEntities]
      [] raw.kind = "bad_json" ->
            [raised |-> FALSE,
             result |-> [intent |-> "general_question", confidence |-> FallbackConfidence,
                         entities |-> NoEntities]]
      [] OTHER -> [raised |-> FALSE, result |-> raw.json]

validate_response_mut_reject_on_error(raw) ==
    IF raw.kind \in {"chat_error", "bad_json"}
    THEN [is_valid |-> FALSE, overall_score |-> 0, issues |-> 0]
    ELSE raw.json

validate_response(raw) ==
    IF raw.kind \in {"chat_error", "bad_json"}
    THEN [is_valid |-> TRUE, overall_score |-> 70, issues |-> 0]
    ELSE IF "is_valid" \in DOMAIN raw.json
         THEN raw.json
         ELSE [k \in DOMAIN raw.json \cup {"is_valid"} |->
                 IF k = "is_valid" THEN Get(raw.json, "overall_score", 0) >= 70
                 ELSE raw.json[k]]

route_decision_mut_fallback_generate(raw) ==
    IF raw.kind \in {"chat_error", "bad_json"}
    THEN [next_node |-> "generate_response", confidence |-> FallbackConfidence,
          reasoning |-> "fallback_llm_routing_error"]
    ELSE IF Get(raw.json, "next_node", None) \notin ValidNodes
         THEN [k \in DOMAIN raw.json \cup {"next_node"} |->
                 IF k = "next_node" THEN "generate_response" ELSE raw.json[k]]
         ELSE raw.json

route_decision_mut_nocoerce(raw) ==
    IF raw.kind \in {"chat_error", "bad_json"}
    THEN [next_node |-> "rag_search", confidence |-> FallbackConfidence,
          reasoning |-> "fallback_llm_routing_error"]
    ELSE raw.json

route_decision(raw) ==
    IF raw.kind \in {"chat_error", "bad_json"}
    THEN [next_node |-> "rag_search", confidence |-> FallbackConfidence,
          reasoning |-> "fallback_llm_routing_error"]
    ELSE IF Get(raw.json, "next_node", None) \notin ValidNodes
         THEN [k \in DOMAIN raw.json \cup {"next_node"} |->
                 IF k = "next_node" THEN "generate_response" ELSE raw.json[k]]
         ELSE raw.json

FallbackPlan ==
    [present |-> TRUE, complexity |-> "simple",
     plan |-> << [step |-> 1, action |-> "rag_search", goal |-> "find"],
                 [step |-> 2, action |-> "generate_response", goal |-> "answer"] >>]

create_plan(raw) ==
    IF raw.kind \in {"chat_error", "bad_json"}
    THEN FallbackPlan
    ELSE [present |-> TRUE,
          complexity |-> Get(raw.json, "complexity", "medium"),
          plan |-> Get(raw.json, "plan", <<>>)]

\* ------------------------------------------------------------- nodes
classify_intent_node(s, raw) ==
    LET r == classify_intent(raw)
    IN IF r.raised
       THEN [intent |-> "general_question", intent_confidence |-> FallbackConfidence,
             entities |-> NoEntities]
       ELSE [intent |-> Get(r.result, "intent", "general_question"),
             intent_confidence |-> Get(r.result, "confidence", FallbackConfidence),
             entities |-> Get(r.result, "entities", NoEntities)]

check_slots_node(s) ==
    LET extracted == extract_slots_from_entities(s.entities, s.slots)
        updated == IF ~Truthy(extracted.product_id) /\ Truthy(s.product_id)
                   THEN [extracted EXCEPT !.product_id = s.product_id]
                   ELSE extracted
        intent == IF s.intent \in Intents THEN s.intent ELSE "general_question"
        chk == check_slots_completeness(intent, updated)
    IN [slots |-> updated,
        slots_complete |-> chk.is_complete,
        missing_slots |-> chk.missing,
        needs_clarification |-> ~chk.is_complete,
        clarification_question |->
            IF chk.is_complete THEN None ELSE generate_clarification_question(chk.missing)]

\* the keys planning_node reads of each of the first three steps for its log
StepIsLoggable(step) == {"step", "action", "goal"} \subseteq DOMAIN step

planning_node(s, raw) ==
    LET plan == create_plan(raw)
        shown == SubSeq(plan.plan, 1, Min(3, Len(plan.plan)))
    IN IF \E i \in 1..Len(shown) : ~StepIsLoggable(shown[i])
       THEN [execution_plan |-> [present |-> TRUE, complexity |-> "simple", plan |-> <<>>],
             current_step |-> 0, plan_complexity |-> "simple",
             completed_steps |-> <<>>, next_planned_action |-> None]
       ELSE [execution_plan |-> plan, current_step |-> 0,
             plan_complexity |-> plan.complexity, completed_steps |-> <<>>,
             next_planned_action |->
                 IF Len(plan.plan) > 0 THEN Get(plan.plan[1], "action", None) ELSE None]

\* execution_plan and execution_plan.get('plan')
HasPlan(s) == s.execution_plan.present /\ Len(s.execution_plan.plan) > 0

PlanStepPending(s) == HasPlan(s) /\ s.current_step < Len(s.execution_plan.plan)

\* A node that may or may not consult its collaborator returns its partial
\* state (update) and the external call it made (call)
NoCall == [service |-> "none", reply |-> [kind |-> "none"]]
Call(service, raw) == [service |-> service, reply |-> raw]
Node(upd, call) == [update |-> upd, call |-> call]

RouterAnswer(raw) ==
    LET r == route_decision(raw)
    IN [routing_decision |-> Get(r, "next_node", "rag_search"),
        routing_reasoning |-> Get(r, "reasoning", "llm_routing_decision"),
        routing_confidence |-> Get(r, "confidence", FallbackConfidence),
        alternative_routes |-> <<>>]

intelligent_route_node_mut_no_append(s, raw) ==
    IF PlanStepPending(s)
    THEN LET next_action == Get(s.execution_plan.plan[s.current_step + 1], "action", None)
         IN Node([routing_decision |-> next_action,
                  routing_reasoning |-> "plan_step",
                  routing_confidence |-> 90,
                  current_step |-> s.current_step + 1,
                  completed_steps |-> s.completed_steps], NoCall)
    ELSE Node(RouterAnswer(raw), Call("router", raw))

intelligent_route_node_mut_ask_router(s, raw) ==
    IF PlanStepPending(s)
    THEN LET next_action == Get(s.execution_plan.plan[s.current_step + 1], "action", None)
         IN Node([k \in DOMAIN RouterAnswer(raw) \cup {"current_step", "completed_steps"} |->
                    IF k = "current_step" THEN s.current_step + 1
                    ELSE IF k = "completed_steps" THEN Append(s.completed_steps, next_action)
                    ELSE RouterAnswer(raw)[k]], Call("router", raw))
    ELSE Node(RouterAnswer(raw), Call("router", raw))

intelligent_route_node(s, raw) ==
    IF PlanStepPending(s)
    THEN LET next_action == Get(s.execution_plan.plan[s.current_step + 1], "action", None)
         IN Node([routing_decision |-> next_action,
                  routing_reasoning |-> "plan_step",
                  routing_confidence |-> 90,
                  current_step |-> s.current_step + 1,
                  completed_steps |-> Append(s.completed_steps, next_action)], NoCall)
    ELSE Node(RouterAnswer(raw), Call("router", raw))

\* raw is the outcome of the response generator: the call raised
\* ("chat_error") or returned a text ("text")
generate_response_node(s, raw) ==
    LET has_data == Truthy(s.action_result) \/ Truthy(s.rag_results)
    IN IF ~has_data /\ s.needs_clarification /\ Truthy(s.clarification_question)
       THEN Node([response |-> s.clarification_question], NoCall)
       ELSE IF raw.kind = "chat_error"
            THEN Node([response |-> "apology_generation_error"], Call("generator", raw))
            ELSE Node([response |-> "generated"], Call("generator", raw))

reflection_node_mut_no_clarification_skip(s, raw) ==
    IF s.regeneration_count >= MaxRegenerations
    THEN Node([reflection_result |-> "max_retries_reached", response_quality_score |-> 60,
               needs_regeneration |-> FALSE], NoCall)
    ELSE LET v == validate_response(raw)
             is_valid == Get(v, "is_valid", TRUE)
             needs_regen == ~is_valid /\ s.regeneration_count < MaxRegenerations
         IN Node([reflection_result |-> IF is_valid THEN "critic_valid" ELSE "critic_invalid",
                  response_quality_score |-> Get(v, "overall_score", 70),
                  needs_regeneration |-> needs_regen,
                  regeneration_count |-> s.regeneration_count + (IF needs_regen THEN 1 ELSE 0),
                  validation_passed |-> is_valid], Call("critic", raw))

reflection_node_mut_unbounded(s, raw) ==
    IF s.needs_clarification /\ Truthy(s.clarification_question)
    THEN Node([reflection_result |-> "clarification_question", response_quality_score |-> 80,
               needs_regeneration |-> FALSE], NoCall)
    ELSE LET v == validate_response(raw)
             is_valid == Get(v, "is_valid", TRUE)
         IN Node([reflection_result |-> IF is_valid THEN "critic_valid" ELSE "critic_invalid",
                  response_quality_score |-> Get(v, "overall_score", 70),
                  needs_regeneration |-> ~is_valid,
                  regeneration_count |-> s.regeneration_count + (IF is_valid THEN 0 ELSE 1),
                  validation_passed |-> is_valid], Call("critic", raw))

reflection_node_mut_limit3(s, raw) ==
    IF s.regeneration_count >= MaxRegenerations + 1
    THEN Node([reflection_result |-> "max_retries_reached", response_quality_score |-> 60,
               needs_regeneration |-> FALSE], NoCall)
    ELSE IF s.needs_clarification /\ Truthy(s.clarification_question)
    THEN Node([reflection_result |-> "clarification_question", response_quality_score |-> 80,
               needs_regeneration |-> FALSE], NoCall)
    ELSE LET v == validate_response(raw)
             is_valid == Get(v, "is_valid", TRUE)
             needs_regen == ~is_valid /\ s.regeneration_count < MaxRegenerations + 1
         IN Node([reflection_result |-> IF is_valid THEN "critic_valid" ELSE "critic_invalid",
                  response_quality_score |-> Get(v, "overall_score", 70),
                  needs_regeneration |-> needs_regen,
                  regeneration_count |-> s.regeneration_count + (IF needs_regen THEN 1 ELSE 0),
                  validation_passed |-> is_valid], Call("critic", raw))

reflection_node(s, raw) ==
    IF s.regeneration_count >= MaxRegenerations
    THEN Node([reflection_result |-> "max_retries_reached", response_quality_score |-> 60,
               needs_regeneration |-> FALSE], NoCall)
    ELSE IF s.needs_clarification /\ Truthy(s.clarification_question)
    THEN Node([reflection_result |-> "clarification_question", response_quality_score |-> 80,
               needs_regeneration |-> FALSE], NoCall)
    ELSE LET v == validate_response(raw)
             is_valid == Get(v, "is_valid", TRUE)
             needs_regen == ~is_valid /\ s.regeneration_count < MaxRegenerations
         IN IF raw.kind = "json" /\ Get(raw.json, "score_is_text", FALSE)
            THEN Node([reflection_result |-> "error_fallback", response_quality_score |-> 70,
                       needs_regeneration |-> FALSE], Call("critic", raw))
            ELSE Node([reflection_result |-> IF is_valid THEN "critic_valid"
                                             ELSE "critic_invalid",
                       response_quality_score |-> Get(v, "overall_score", 70),
                       needs_regeneration |-> needs_regen,
                       regeneration_count |-> s.regeneration_count
                                              + (IF needs_regen THEN 1 ELSE 0),
                       validation_passed |-> is_valid], Call("critic", raw))

\* ------------------------------------------------------------ routing
route_after_reflection(s) == IF s.needs_regeneration THEN "regenerate" ELSE "end"

\* a decision outside the mapping ends the plan with generate_response
route_from_intelligent_router_mut_default_generate(s) ==
    IF s.routing_decision \in ValidNodes THEN s.routing_decision ELSE "generate_response"

route_from_intelligent_router(s) ==
    IF s.routing_decision \in ValidNodes THEN s.routing_decision ELSE "rag_search"

route_after_action_mut_le(s) ==
    IF HasPlan(s) /\ s.current_step <= Len(s.execution_plan.plan)
    THEN "continue_plan" ELSE "generate_response"

route_after_action(s) ==
    IF HasPlan(s) /\ s.current_step < Len(s.execution_plan.plan)
    THEN "continue_plan" ELSE "generate_response"

product_dependent_intents ==
    {"delivery_question", "bargaining", "warranty_question", "meeting_planning"}

route_by_complexity_mut_no_complex_intents(s) ==
    LET is_complex ==
          IF s.intent \in product_dependent_intents
          THEN s.slots.product_name /= None
               /\ ~(Truthy(s.slots.product_id) \/ Truthy(s.product_id))
          ELSE s.intent_confidence < ComplexityConfidence /\ ~s.slots_complete
    IN IF is_complex THEN "planning" ELSE "intelligent_router"

route_by_complexity(s) ==
    LET is_complex ==
          IF s.intent \in {"bargaining", "meeting_planning"} THEN TRUE
          ELSE IF s.intent \in product_dependent_intents
          THEN s.slots.product_name /= None
               /\ ~(Truthy(s.slots.product_id) \/ Truthy(s.product_id))
          ELSE s.intent_confidence < ComplexityConfidence /\ ~s.slots_complete
    IN IF is_complex THEN "planning" ELSE "intelligent_router"

\* ------------------------------------------------------------ catalog
Products == {"p1", "p2"}

Catalog ==
    [p1 |-> [price |-> 100, min_price |-> 80, max_discount_percent |-> 10,
             bargaining_allowed |-> TRUE, meeting_locations |-> {"loc_a", "loc_b"}],
     p2 |-> [price |-> 200, min_price |-> 200, max_discount_percent |-> 0,
             bargaining_allowed |-> TRUE, meeting_locations |-> {"loc_a"}]]

InitialStock == [p \in Products |-> IF p = "p1" THEN 2 ELSE 0]

\* the decrement moved out of the stock test
reserve_mut_decrement_always(stk, quantity) ==
    [ok |-> stk >= quantity, stock |-> stk - quantity]

\* Product.reserve: the stock after the call and whether it succeeded
reserve(stk, quantity) ==
    IF stk >= quantity
    THEN [ok |-> TRUE, stock |-> stk - quantity]
    ELSE [ok |-> FALSE, stock |-> stk]

\* ------------------------------------------------------ HybridRetriever
\* scores are integers on the scale 0..ScoreScale (1.0 = ScoreScale)
ScoreScale == 10000
SemanticWeightCfg == 4
KeywordWeightCfg == 6
TopK == 3
MinScore == 5000
AdaptiveGap == 3000
RerankDrop == 3000

semantic_weight == (SemanticWeightCfg * 100) \div (SemanticWeightCfg + KeywordWeightCfg)
keyword_weight == (KeywordWeightCfg * 100) \div (SemanticWeightCfg + KeywordWeightCfg)

\* ---- double-precision arithmetic of the weights (positive normal numbers)
\* A double is [m, e] with 2^52 <= m < 2^53 and the value m * 2^e; m is a
\* tuple of 6 limbs in base 2^20, least significant first. op is "int" (the
\* double of the integer x, 0 < x < 2^31), "div" (x / y), "add" (x + y) or
\* "near_one" (x is at most 2^-52 away from 1.0); every result is rounded
\* to the nearest double, ties to even.
Double(op, x, y) ==
    LET LimbBase == 2^20
        Big(n) == <<n % LimbBase, n \div LimbBase, 0, 0, 0, 0>>
        MantissaMin == <<0, 0, 2^12, 0, 0, 0>>
        MantissaEnd == <<0, 0, 2^13, 0, 0, 0>>
        RECURSIVE AddLimbs(_, _, _)
        AddLimbs(a, b, carry) ==
            IF a = <<>> THEN <<>>
            ELSE LET t == Head(a) + Head(b) + carry
                 IN <<t % LimbBase>> \o AddLimbs(Tail(a), Tail(b), t \div LimbBase)
        BigAdd(a, b) == AddLimbs(a, b, 0)
        BigDouble(a) == BigAdd(a, a)
        RECURSIVE SubLimbs(_, _, _)
        SubLimbs(a, b, borrow) ==
            IF a = <<>> THEN <<>>
            ELSE LET d == Head(a) - Head(b) - borrow
                 IN IF d < 0 THEN <<d + LimbBase>> \o SubLimbs(Tail(a), Tail(b), 1)
                    ELSE <<d>> \o SubLimbs(Tail(a), Tail(b), 0)
        BigSub(a, b) == SubLimbs(a, b, 0)
        BigLess(a, b) ==
            \E i \in 1..Len(a) : a[i] < b[i] /\ \A k \in (i + 1)..Len(a) : a[k] = b[k]
        RECURSIVE BigHalf(_)
        BigHalf(a) ==
            IF a = <<>> THEN <<>>
            ELSE <<Head(a) \div 2
                   + (IF Len(a) > 1 THEN (a[2] % 2) * (LimbBase \div 2) ELSE 0)>>
                 \o BigHalf(Tail(a))
        BigOdd(a) == a[1] % 2 = 1
        \* m * 2^e, m >= 2^52, rounded; round and sticky are the bits shifted out
        RECURSIVE RoundToDouble(_, _, _, _)
        RoundToDouble(m, e, round, sticky) ==
            IF ~BigLess(m, MantissaEnd)
            THEN RoundToDouble(BigHalf(m), e + 1, BigOdd(m), round \/ sticky)
            ELSE LET up == round /\ (sticky \/ BigOdd(m))
                     r == IF up THEN BigAdd(m, Big(1)) ELSE m
                 IN IF r = MantissaEnd THEN [m |-> MantissaMin, e |-> e + 1]
                    ELSE [m |-> r, e |-> e]
        RECURSIVE Normalized(_, _)
        Normalized(m, e) ==
            IF BigLess(m, MantissaMin) THEN Normalized(BigDouble(m), e - 1)
            ELSE [m |-> m, e |-> e]
        \* steps more quotient bits of qr.r / d, for qr.r < d
        RECURSIVE LongDivision(_, _, _)
        LongDivision(qr, d, steps) ==
            IF steps = 0 THEN qr
            ELSE LET r2 == BigDouble(qr.r)
                     q2 == BigDouble(qr.q)
                 IN IF BigLess(r2, d)
                    THEN LongDivision([q |-> q2, r |-> r2], d, steps - 1)
                    ELSE LongDivision([q |-> BigAdd(q2, Big(1)), r |-> BigSub(r2, d)],
                                      d, steps - 1)
        RECURSIVE ShiftLeft(_, _)
        ShiftLeft(m, n) == IF n = 0 THEN m ELSE ShiftLeft(BigDouble(m), n - 1)
        first == ~BigLess(x.m, y.m)
        steps == IF first THEN 53 ELSE 54
        res == LongDivision(IF first THEN [q |-> Big(1), r |-> BigSub(x.m, y.m)]
                            ELSE [q |-> Big(0), r |-> x.m], y.m, steps)
        hi == IF x.e >= y.e THEN x ELSE y
        lo == IF x.e >= y.e THEN y ELSE x
    IN CASE op = "int" -> Normalized(Big(x), 0)
         [] op = "div" -> RoundToDouble(res.q, x.e - y.e - steps, FALSE, res.r /= Big(0))
         [] op = "add" ->
              IF hi.e - lo.e > 60 THEN hi
              ELSE RoundToDouble(BigAdd(ShiftLeft(hi.m, hi.e - lo.e), lo.m), lo.e,
                                 FALSE, FALSE)
         [] op = "near_one" ->
              \/ x.m = MantissaMin /\ x.e = 0 - 52
              \/ x.e = 0 - 53 /\ BigLess(BigSub(MantissaEnd, x.m), Big(3))
              \/ x.e = 0 - 52 /\ BigLess(BigSub(x.m, MantissaMin), Big(2))

\* float() of a decimal with two places, given in hundredths
FloatOfHundredths(n) == Double("div", Double("int", n, 0), Double("int", 100, 0))

\* the weights are used as configured
normalized_weights_mut_not_normalized(semantic, keyword) ==
    [semantic_weight |-> semantic, keyword_weight |-> keyword]

\* HybridRetriever.__init__: the configured weights divided by their sum
normalized_weights(semantic, keyword) ==
    LET total == Double("add", semantic, keyword)
    IN [semantic_weight |-> Double("div", semantic, total),
        keyword_weight |-> Double("div", keyword, total)]

IndexOf(seq, pid) ==
    IF \E i \in 1..Len(seq) : seq[i].product_id = pid
    THEN CHOOSE i \in 1..Len(seq) : seq[i].product_id = pid
    ELSE 0

RECURSIVE MergeSemantic(_, _)
MergeSemantic(acc, sem) ==
    IF sem = <<>> THEN acc
    ELSE LET r == Head(sem)
             entry == [product_id |-> r.product_id, semantic_score |-> r.score,
                       keyword_score |-> 0]
             i == IndexOf(acc, r.product_id)
         IN IF ~Truthy(r.product_id) THEN MergeSemantic(acc, Tail(sem))
            ELSE IF i > 0 THEN MergeSemantic([acc EXCEPT ![i] = entry], Tail(sem))
            ELSE MergeSemantic(Append(acc, entry), Tail(sem))

RECURSIVE MergeKeyword(_, _)
MergeKeyword(acc, kw) ==
    IF kw = <<>> THEN acc
    ELSE LET r == Head(kw)
             i == IndexOf(acc, r.product_id)
         IN IF i > 0
            THEN MergeKeyword([acc EXCEPT ![i].keyword_score = r.score], Tail(kw))
            ELSE IF r.product_id \in Products
            THEN MergeKeyword(Append(acc, [product_id |-> r.product_id, semantic_score |-> 0,
                                           keyword_score |-> r.score]), Tail(kw))
            ELSE MergeKeyword(acc, Tail(kw))

\* list.sort(key=score, reverse=True): stable, descending
RECURSIVE InsertByScore(_, _)
InsertByScore(sorted, r) ==
    IF sorted = <<>> THEN <<r>>
    ELSE IF Head(sorted).score >= r.score
         THEN <<Head(sorted)>> \o InsertByScore(Tail(sorted), r)
         ELSE <<r>> \o sorted

RECURSIVE SortByScore(_)
SortByScore(seq) ==
    IF seq = <<>> THEN <<>>
    ELSE InsertByScore(SortByScore(SubSeq(seq, 1, Len(seq) - 1)), seq[Len(seq)])

CombinedScore(e) ==
    (e.semantic_score * semantic_weight + e.keyword_score * keyword_weight) \div 100

\* the two lists are put one after the other, a product of both arms twice
combine_results_mut_concatenate(semantic_results, keyword_results) ==
    LET both == [i \in 1..Len(semantic_results) |->
                    [product_id |-> semantic_results[i].product_id,
                     semantic_score |-> semantic_results[i].score, keyword_score |-> 0]]
                \o [i \in 1..Len(keyword_results) |->
                    [product_id |-> keyword_results[i].product_id,
                     semantic_score |-> 0, keyword_score |-> keyword_results[i].score]]
    IN SortByScore([i \in 1..Len(both) |->
                      [product_id |-> both[i].product_id,
                       score |-> CombinedScore(both[i]),
                       semantic_score |-> both[i].semantic_score,
                       keyword_score |-> both[i].keyword_score]])

combine_results(semantic_results, keyword_results) ==
    LET combined == MergeKeyword(MergeSemantic(<<>>, semantic_results), keyword_results)
        final == [i \in 1..Len(combined) |->
                    [product_id |-> combined[i].product_id,
                     score |-> CombinedScore(combined[i]),
                     semantic_score |-> combined[i].semantic_score,
                     keyword_score |-> combined[i].keyword_score]]
    IN SortByScore(final)

\* LLMReranker.rerank: reply is the relevance-scoring step's outcome, either
\* "error" (call raised / no JSON found) or the list of scores
rerank(results, reply) ==
    IF Len(results) <= 2 \/ reply.kind = "error" THEN results
    ELSE LET Keep(i) == i <= Len(reply.scores) /\ ~(reply.scores[i] < RerankDrop)
             idx == SelectSeq([i \in 1..Len(results) |-> i], Keep)
             reranked == [j \in 1..Len(idx) |->
                            [results[idx[j]] EXCEPT
                               !.score = (reply.scores[idx[j]] + results[idx[j]].score) \div 2]]
         IN SortByScore(reranked)

FilterScore(seq, threshold) == SelectSeq(seq, LAMBDA r : r.score >= threshold)

Take(seq, k) == SubSeq(seq, 1, Min(k, Len(seq)))

\* the threshold alone, without the cutoff relative to the top score
retrieve_mut_no_adaptive_cutoff(semantic, keyword, rerank_reply, top_k) ==
    IF semantic.raised \/ keyword.raised
    THEN [raised |-> TRUE, results |-> <<>>]
    ELSE LET combined == combine_results(semantic.results, keyword.results)
             ranked == IF Len(combined) > 2 THEN rerank(combined, rerank_reply) ELSE combined
         IN [raised |-> FALSE, results |-> Take(FilterScore(ranked, MinScore), top_k)]

\* HybridRetriever.retrieve; each arm is [raised, results]
retrieve(semantic, keyword, rerank_reply, top_k) ==
    IF semantic.raised \/ keyword.raised
    THEN [raised |-> TRUE, results |-> <<>>]
    ELSE LET combined == combine_results(semantic.results, keyword.results)
             ranked == IF Len(combined) > 2 THEN rerank(combined, rerank_reply) ELSE combined
             filtered == FilterScore(ranked, MinScore)
             adaptive == IF filtered = <<>> THEN filtered
                         ELSE FilterScore(filtered, Max(MinScore, filtered[1].score - AdaptiveGap))
         IN [raised |-> FALSE, results |-> Take(adaptive, top_k)]

\* ---------------------------------------------------- NegotiationEngine
can_bargain(product) == product.bargaining_allowed /\ product.max_discount_percent > 0

\* offers above the list price are refused
evaluate_offer_mut_overpay_declined(product, offered_price) ==
    IF ~can_bargain(product) THEN "decline"
    ELSE IF offered_price > product.price THEN "decline"
    ELSE IF (product.price - offered_price) * 100 <= product.max_discount_percent * product.price
    THEN "accept"
    ELSE IF (product.price - offered_price) * 200 <= product.max_discount_percent * 3 * product.price
    THEN "counter_offer"
    ELSE "decline"

\* the comparison with max_discount turned round
evaluate_offer_mut_flipped_comparison(product, offered_price) ==
    IF ~can_bargain(product) THEN "decline"
    ELSE IF offered_price >= product.price THEN "accept"
    ELSE IF (product.price - offered_price) * 100 >= product.max_discount_percent * product.price
    THEN "accept"
    ELSE IF (product.price - offered_price) * 200 <= product.max_discount_percent * 3 * product.price
    THEN "counter_offer"
    ELSE "decline"

\* the decision of evaluate_offer; discount_percent = (price - offered) / price * 100,
\* prices in whole roubles and the quotient compared exactly
evaluate_offer(product, offered_price) ==
    IF ~can_bargain(product) THEN "decline"
    ELSE IF offered_price >= product.price THEN "accept"
    ELSE IF (product.price - offered_price) * 100 <= product.max_discount_percent * product.price
    THEN "accept"
    ELSE IF (product.price - offered_price) * 200 <= product.max_discount_percent * 3 * product.price
    THEN "counter_offer"
    ELSE "decline"

\* ------------------------------------------------------ MeetingValidator
\* Times are minutes of the day, the clock `now` is the minute of today at
\* which the validator runs, dates are days counted from today (a day has
\* 1440 minutes).
\* _parse_time on the texts the model uses; any other text raises
TimeTable ==
    [t \in {"09:00", "10:00", "13:00", "13:30", "14:00", "15:00", "18:00", "19:59",
            "20:00", "20:01", "23:00"} |->
        CASE t = "09:00" -> 540 [] t = "10:00" -> 600 [] t = "13:00" -> 780
          [] t = "13:30" -> 810 [] t = "14:00" -> 840 [] t = "15:00" -> 900
          [] t = "18:00" -> 1080 [] t = "19:59" -> 1199 [] t = "20:00" -> 1200
          [] t = "20:01" -> 1201 [] t = "23:00" -> 1380]

\* _normalize_fuzzy_time (the Russian words for morning, afternoon, evening, night)
normalize_fuzzy_time(time_str) ==
    CASE time_str = "utrom" -> "10:00"
      [] time_str = "dnem" -> "14:00"
      [] time_str = "vecherom" -> "18:00"
      [] time_str = "nochyu" -> "20:00"
      [] OTHER -> time_str

\* _get_datetime: "today", "tomorrow", a date written out ("in_40_days"
\* stands for the ISO date 40 days from today); a text that is no date
\* falls back to tomorrow
DayOf(date_str) ==
    CASE date_str = "today" -> 0
      [] date_str = "tomorrow" -> 1
      [] date_str = "in_40_days" -> 40
      [] OTHER -> 1

\* a calendar day is <<year, month, day>>; a date text is a word
\* ([fmt |-> "word"]), "YYYY-MM-DD" ("ymd"), "DD.MM.YYYY" ("dmy") or "DD.MM"
\* ("dm") with the numbers it holds
\* datetime.now() + timedelta(days=1)
NextDay(day) ==
    LET DaysIn == [m \in 1..12 |-> IF m = 2 THEN 28
                                   ELSE IF m \in {4, 6, 9, 11} THEN 30 ELSE 31]
    IN IF day[3] < DaysIn[day[2]] THEN <<day[1], day[2], day[3] + 1>>
       ELSE IF day[2] < 12 THEN <<day[1], day[2] + 1, 1>>
       ELSE <<day[1] + 1, 1, 1>>

\* datetime.strptime(text, "%Y-%m-%d").date(): the day, or None when the
\* call raises ValueError (another format, a day the month does not have)
strptime_ymd(y, m, d) ==
    LET DaysIn == [k \in 1..12 |-> IF k = 2 THEN 28
                                   ELSE IF k \in {4, 6, 9, 11} THEN 30 ELSE 31]
    IN IF m \in 1..12 /\ d >= 1 /\ d <= DaysIn[m] THEN <<y, m, d>> ELSE None

\* _get_datetime: the day validate_meeting_time checks
get_datetime(today, date) ==
    IF date.fmt = "word"
    THEN IF date.word = "today" THEN today ELSE NextDay(today)
    ELSE IF date.fmt \in {"ymd", "dmy"} /\ strptime_ymd(date.y, date.m, date.d) /= None
    THEN strptime_ymd(date.y, date.m, date.d)
    ELSE NextDay(today)

\* the date_str meeting_planning_node builds for the calendar and the day
\* create_event parses from it with "%Y-%m-%d"; None when that raises and no
\* event is created
calendar_event_day(today, date) ==
    IF date.fmt = "word"
    THEN IF date.word = "today" THEN today
         ELSE IF date.word = "tomorrow" THEN NextDay(today)
         ELSE None
    ELSE IF date.fmt = "dm" THEN strptime_ymd(today[1], date.m, date.d)
    ELSE strptime_ymd(date.y, date.m, date.d)

\* the code's defaults, used when data/meeting_rules.yaml configures nothing
DefaultRules ==
    [min_hours |-> 2, max_days |-> 30, closed_days |-> {},
     business_hours_enabled |-> TRUE, start_time |-> "09:00", end_time |-> "20:00",
     lunch_break_enabled |-> FALSE, lunch_start |-> "13:00", lunch_end |-> "14:00",
     messages |-> {}]

\* validate_meeting_time: (is_valid, issues, suggestion)
validate_meeting_time(rules, now, date_str, time_str) ==
    LET time == normalize_fuzzy_time(time_str)
        minute == TimeTable[time]
        ahead == DayOf(date_str) * 1440 + minute - now
        \* messages.get(key, ''): the configured template or the empty string
        Message(key) == IF key \in rules.messages THEN "message_" \o key ELSE ""
        Verdict(is_valid, issues, suggestion) ==
            [is_valid |-> is_valid, issues |-> issues, suggestion |-> suggestion]
    IN IF time \notin DOMAIN TimeTable THEN Verdict(FALSE, <<"parse_error">>, None)
       ELSE IF ahead < 0 THEN Verdict(FALSE, <<"time_passed">>, "suggest_preferred_times")
       ELSE IF ahead < rules.min_hours * 60
       THEN Verdict(FALSE, <<"too_soon">>, "suggest_after_lead_time")
       ELSE IF ahead \div 1440 > rules.max_days
       THEN Verdict(FALSE, <<"too_far">>, Message("too_far"))
       ELSE IF DayOf(date_str) \in rules.closed_days
       THEN Verdict(FALSE, <<"non_working_day">>, Message("non_working_day"))
       ELSE IF /\ rules.business_hours_enabled
               /\ ~(TimeTable[rules.start_time] <= minute /\ minute <= TimeTable[rules.end_time])
       THEN Verdict(FALSE, <<"outside_business_hours">>,
                    Message("business_hours_violation"))
       ELSE IF /\ rules.lunch_break_enabled
               /\ TimeTable[rules.lunch_start] <= minute
               /\ minute < TimeTable[rules.lunch_end]
       THEN Verdict(FALSE, <<"lunch_break">>, Message("lunch_time"))
       ELSE Verdict(TRUE, <<>>, None)

\* ------------------------------------------------------ capability nodes
\* A capability node returns: raised (an exception left the node), update
\* (its partial state), slots (state['slots'] after in-place writes), stock
\* and the side effects it performed, in order.
Returned(s, upd, stk, eff) ==
    [raised |-> FALSE, update |-> upd, slots |-> s.slots, stock |-> stk, effects |-> eff]
Raised(s, stk) ==
    [raised |-> TRUE, update |-> NoEntities, slots |-> s.slots, stock |-> stk, effects |-> <<>>]

\* res, with the note that the node called HybridRetriever.retrieve
WithRetrieval(retrieved, res) ==
    [k \in DOMAIN res \cup {"retrieved"} |-> IF k = "retrieved" THEN retrieved ELSE res[k]]

TopProduct(results) == IF Len(results) > 0 THEN results[1].product_id ELSE None

Or(a, b) == IF Truthy(a) THEN a ELSE b

RECURSIVE SumScores(_)
SumScores(seq) == IF seq = <<>> THEN 0 ELSE Head(seq).score + SumScores(Tail(seq))

rag_search_node(s, stk, r1, r2) ==
    WithRetrieval(~(Truthy(s.product_id) /\ s.product_id \in Products),
        IF Truthy(s.product_id) /\ s.product_id \in Products
        THEN Returned(s, [rag_results |-> "product_context", relevance_score |-> ScoreScale,
                          action_type |-> "rag_search"], stk, <<>>)
        ELSE IF r1.raised \/ r2.raised THEN Raised(s, stk)
        ELSE Returned(s,
                [rag_results |-> IF Len(r2.results) > 0 THEN "formatted_results"
                                 ELSE "no_relevant_info",
                 relevance_score |-> IF Len(r1.results) > 0
                                     THEN SumScores(r1.results) \div Len(r1.results) ELSE 0,
                 action_type |-> "rag_search",
                 product_id |-> TopProduct(r1.results)], stk, <<>>))

check_stock_text(stk, product_id) ==
    IF product_id \notin Products THEN "product_not_found"
    ELSE IF stk[product_id] > 0 THEN "in_stock" ELSE "out_of_stock"

\* the title of a result names the requested memory size
MemoryMatch(requested_memory, product_id) ==
    ~Truthy(requested_memory) \/ requested_memory = "mem_" \o product_id

stock_check_node(s, stk, r) ==
    LET known == Or(s.product_id, s.slots.product_id)
        requested_memory == s.slots.product_memory
        exact == SelectSeq(r.results, LAMBDA x : MemoryMatch(requested_memory, x.product_id))
        alternatives == SelectSeq(r.results,
                                  LAMBDA x : ~MemoryMatch(requested_memory, x.product_id))
        Check(pid) == Returned(s, [action_result |-> check_stock_text(stk, pid),
                                   product_id |-> pid, action_type |-> "stock_check"], stk, <<>>)
        Unknown == Returned(s, [action_result |-> "cannot_identify_product",
                                action_type |-> "stock_check"], stk, <<>>)
    IN WithRetrieval(~Truthy(known),
       IF Truthy(known) THEN Check(known)
           ELSE IF r.raised THEN Raised(s, stk)
           ELSE IF Len(r.results) = 0 THEN Unknown
           ELSE IF Len(exact) > 0 THEN Check(exact[1].product_id)
           ELSE IF Len(alternatives) > 0
           THEN IF Truthy(requested_memory)
                THEN Returned(s, [action_result |-> "alternatives_offered",
                                  action_type |-> "stock_check"], stk, <<>>)
                ELSE Check(alternatives[1].product_id)
           ELSE Unknown)

delivery_check_node(s, stk, r) ==
    LET known == Or(s.product_id, s.slots.product_id)
        product_id == IF Truthy(known) THEN known ELSE TopProduct(r.results)
    IN WithRetrieval(~Truthy(known),
       IF ~Truthy(known) /\ r.raised THEN Raised(s, stk)
           ELSE IF ~Truthy(product_id)
           THEN Returned(s, [action_result |-> "cannot_identify_product",
                             action_type |-> "delivery_check"], stk, <<>>)
           ELSE Returned(s, [action_result |-> IF product_id \in Products
                                               THEN "delivery_recommendation"
                                               ELSE "product_not_found",
                             product_id |-> product_id,
                             action_type |-> "delivery_check"], stk, <<>>))

\* `not offered_price`: None and 0.0 are both falsy
NoOffer(price) == price = NoPrice \/ price = 0

\* the offer is evaluated without the test for a missing price
bargaining_node_mut_offer_not_required(s, stk, r) ==
    LET known == Or(s.product_id, s.slots.product_id)
        offered_price == s.slots.offered_price
        product_id == IF Truthy(known) THEN known ELSE TopProduct(r.results)
        decision == evaluate_offer(Catalog[product_id], offered_price)
    IN WithRetrieval(~Truthy(known),
       IF ~Truthy(known) /\ r.raised THEN Raised(s, stk)
           ELSE IF ~Truthy(product_id)
           THEN LET base == [action_result |->
                                IF ~Truthy(product_id)
                                THEN IF NoOffer(offered_price) THEN "missing_product_and_price"
                                     ELSE "missing_product"
                                ELSE "missing_price",
                             needs_clarification |-> TRUE,
                             action_type |-> "bargaining"]
                IN Returned(s, IF Truthy(product_id)
                               THEN [k \in DOMAIN base \cup {"product_id"} |->
                                       IF k = "product_id" THEN product_id ELSE base[k]]
                               ELSE base, stk, <<>>)
           ELSE IF product_id \notin Products
           THEN Returned(s, [action_result |-> "product_not_found", product_id |-> product_id,
                             action_type |-> "bargaining"], stk, <<>>)
           ELSE [raised |-> FALSE,
                 update |-> [action_result |-> "offer_" \o decision, product_id |-> product_id,
                             action_type |-> "bargaining"],
                 slots |-> IF decision = "accept"
                           THEN [s.slots EXCEPT !.agreed_price = offered_price] ELSE s.slots,
                 stock |-> stk,
                 effects |-> IF decision = "accept" THEN <<"notify_deal_agreed">> ELSE <<>>])

bargaining_node(s, stk, r) ==
    LET known == Or(s.product_id, s.slots.product_id)
        offered_price == s.slots.offered_price
        product_id == IF Truthy(known) THEN known ELSE TopProduct(r.results)
        decision == evaluate_offer(Catalog[product_id], offered_price)
    IN WithRetrieval(~Truthy(known),
       IF ~Truthy(known) /\ r.raised THEN Raised(s, stk)
           ELSE IF ~Truthy(product_id) \/ NoOffer(offered_price)
           THEN LET base == [action_result |->
                                IF ~Truthy(product_id)
                                THEN IF NoOffer(offered_price) THEN "missing_product_and_price"
                                     ELSE "missing_product"
                                ELSE "missing_price",
                             needs_clarification |-> TRUE,
                             action_type |-> "bargaining"]
                IN Returned(s, IF Truthy(product_id)
                               THEN [k \in DOMAIN base \cup {"product_id"} |->
                                       IF k = "product_id" THEN product_id ELSE base[k]]
                               ELSE base, stk, <<>>)
           ELSE IF product_id \notin Products
           THEN Returned(s, [action_result |-> "product_not_found", product_id |-> product_id,
                             action_type |-> "bargaining"], stk, <<>>)
           ELSE [raised |-> FALSE,
                 update |-> [action_result |-> "offer_" \o decision, product_id |-> product_id,
                             action_type |-> "bargaining"],
                 slots |-> IF decision = "accept"
                           THEN [s.slots EXCEPT !.agreed_price = offered_price] ELSE s.slots,
                 stock |-> stk,
                 effects |-> IF decision = "accept" THEN <<"notify_deal_agreed">> ELSE <<>>])

\* the calendar step is skipped when a failed calendar call came back
meeting_effects_mut_calendar_failure_stops(calendar) ==
    <<"reserve">>
    \o (IF calendar = "disabled" THEN <<"notify_meeting_scheduled">>
        ELSE IF calendar = "created" THEN <<"calendar_event", "notify_meeting_scheduled">>
        ELSE <<"calendar_failed">>)

\* the side effects of a confirmed meeting, in the order the node makes them
meeting_effects(calendar) ==
    <<"reserve">>
    \o (IF calendar = "disabled" THEN <<>>
        ELSE IF calendar = "created" THEN <<"calendar_event">>
        ELSE <<"calendar_failed">>)
    \o <<"notify_meeting_scheduled">>

\* meeting_planning_node; rules and now are the validator's configuration
\* and clock, calendar is "disabled", "failed" (create_event returned None)
\* or "created"
meeting_planning_node(s, stk, r, rules, now, calendar) ==
    LET known == Or(s.product_id, s.slots.product_id)
        time_valid == validate_meeting_time(rules, now, s.slots.meeting_date,
                                            s.slots.meeting_time).is_valid
        location == s.slots.meeting_location
        date == s.slots.meeting_date
        time == s.slots.meeting_time
        product_id == IF Truthy(known) THEN known ELSE TopProduct(r.results)
        Clarify(text) == [action_result |-> text, needs_clarification |-> TRUE,
                          action_type |-> "meeting_planning"]
        ClarifyWithProduct(text) ==
            [action_result |-> text, needs_clarification |-> TRUE,
             action_type |-> "meeting_planning", product_id |-> product_id]
        res == reserve(stk[product_id], 1)
    IN WithRetrieval(~Truthy(known),
       IF ~Truthy(known) /\ r.raised THEN Raised(s, stk)
           ELSE IF ~Truthy(product_id)
           THEN Returned(s, Clarify("no_product_for_meeting"), stk, <<>>)
           ELSE IF product_id \notin Products
           THEN Returned(s, [action_result |-> "product_not_found",
                             action_type |-> "meeting_planning"], stk, <<>>)
           ELSE IF Truthy(location) /\ location \notin Catalog[product_id].meeting_locations
           THEN Returned(s, ClarifyWithProduct("location_not_available"), stk, <<>>)
           ELSE IF ~Truthy(date)
           THEN Returned(s, ClarifyWithProduct("suggest_days"), stk, <<>>)
           ELSE IF ~Truthy(time)
           THEN Returned(s, Clarify("suggest_times"), stk, <<>>)
           ELSE IF ~time_valid
           THEN Returned(s, Clarify("time_not_suitable"), stk, <<>>)
           ELSE IF ~Truthy(location)
           THEN Returned(s, Clarify("ask_location"), stk, <<>>)
           ELSE IF ~res.ok
           THEN Returned(s, [action_result |-> "reserve_failed",
                             action_type |-> "meeting_planning"],
                         [stk EXCEPT ![product_id] = res.stock], <<>>)
           ELSE Returned(s,
                   [action_result |-> IF calendar = "created" THEN "meeting_confirmed_calendar"
                                      ELSE "meeting_confirmed",
                    product_id |-> product_id, action_type |-> "meeting_planning"],
                   [stk EXCEPT ![product_id] = res.stock],
                   meeting_effects(calendar)))

\* ---------------------------------------------------------------- graph
\* create_agent_graph: the nodes added to the workflow
GraphNodes ==
    {"classify_intent", "check_slots", "planning", "intelligent_router", "reflection"}
    \cup ValidNodes

next_node_mut_skip_reflection(node, s) ==
    CASE node = "classify_intent" -> "check_slots"
      [] node = "check_slots" -> route_by_complexity(s)
      [] node = "planning" -> "intelligent_router"
      [] node = "intelligent_router" -> route_from_intelligent_router(s)
      [] node \in CapabilityNodes ->
            IF route_after_action(s) = "continue_plan" THEN "intelligent_router"
            ELSE "generate_response"
      [] node = "generate_response" ->
            IF s.response = "generated" THEN "end" ELSE "reflection"
      [] node = "reflection" ->
            IF route_after_reflection(s) = "regenerate" THEN "generate_response" ELSE "end"

\* create_agent_graph: the node entered after `node` returned in state s
next_node(node, s) ==
    CASE node = "classify_intent" -> "check_slots"
      [] node = "check_slots" -> route_by_complexity(s)
      [] node = "planning" -> "intelligent_router"
      [] node = "intelligent_router" -> route_from_intelligent_router(s)
      [] node \in CapabilityNodes ->
            IF route_after_action(s) = "continue_plan" THEN "intelligent_router"
            ELSE "generate_response"
      [] node = "generate_response" -> "reflection"
      [] node = "reflection" ->
            IF route_after_reflection(s) = "regenerate" THEN "generate_response" ELSE "end"

\* ConsoleInterface.process_message: the state a turn starts with; keys the
\* dict does not hold carry the default the nodes read them with
initial_state(slots, product_id) ==
    [intent |-> None, intent_confidence |-> 0, entities |-> NoEntities,
     slots |-> slots, slots_complete |-> FALSE, missing_slots |-> <<>>,
     product_id |-> product_id, rag_results |-> None, relevance_score |-> 0,
     action_result |-> None, action_type |-> None, response |-> "",
     needs_clarification |-> FALSE, clarification_question |-> None,
     validation_passed |-> TRUE,
     reflection_result |-> Absent, response_quality_score |-> 0,
     needs_regeneration |-> FALSE, regeneration_count |-> 0,
     routing_decision |-> Absent, routing_reasoning |-> Absent, routing_confidence |-> 0,
     alternative_routes |-> <<>>,
     execution_plan |-> NoPlan, current_step |-> 0, plan_complexity |-> Absent,
     completed_steps |-> <<>>, next_planned_action |-> Absent]

\* ------------------------------------------------- environment inputs
ChatError == [kind |-> "chat_error"]
BadJson == [kind |-> "bad_json"]
Json(obj) == [kind |-> "json", json |-> obj]

ClassifierReplies ==
    {ChatError, BadJson, Json(NoEntities),
     Json([intent |-> "product_info", confidence |-> 90, entities |-> NoEntities]),
     Json([intent |-> "stock_check", confidence |-> 90,
           entities |-> [product_name |-> "phone", memory |-> "mem_p2"]]),
     Json([intent |-> "delivery_question", confidence |-> 50, entities |-> NoEntities]),
     Json([intent |-> "delivery_question", confidence |-> 90,
           entities |-> [product_name |-> "phone"]]),
     Json([intent |-> "warranty_question", confidence |-> 90,
           entities |-> [product_id |-> "p1"]]),
     Json([intent |-> "bargaining", confidence |-> 90, entities |-> [price |-> "80"]]),
     Json([intent |-> "bargaining", confidence |-> 70,
           entities |-> [product_id |-> "p1", price |-> "100"]]),
     Json([intent |-> "meeting_planning", confidence |-> 90,
           entities |-> [product_id |-> "p1", location |-> "loc_a",
                         date |-> "tomorrow", time |-> "15:00"]]),
     Json([intent |-> "meeting_planning", confidence |-> 50,
           entities |-> [product_id |-> "p9", location |-> "loc_x"]]),
     Json([intent |-> "meeting_planning", confidence |-> 90,
           entities |-> [product_id |-> "p2", location |-> "loc_a",
                         date |-> "today", time |-> "20:00"]]),
     Json([intent |-> "meeting_planning", confidence |-> 90,
           entities |-> [product_id |-> "p9", location |-> "loc_a",
                         date |-> "tomorrow", time |-> "15:00"]]),
     Json([intent |-> "smalltalk", confidence |-> 50, entities |-> [price |-> "cheap"]])}

PlanActions == ValidNodes \cup {"unknown_action"}

ActionSeqs == UNION {[1..k -> PlanActions] : k \in 0..MaxPlanLen}

MkPlan(actions) ==
    [i \in 1..Len(actions) |-> [step |-> i, action |-> actions[i], goal |-> "goal"]]

PlannerReplies ==
    {ChatError, BadJson, Json([complexity |-> "complex"]),
     Json([plan |-> << [step |-> 1, action |-> "rag_search"] >>])}
    \cup {Json([complexity |-> "medium", plan |-> MkPlan(a)]) : a \in ActionSeqs}

RouterReplies ==
    {ChatError, BadJson, Json([confidence |-> 80])}
    \cup {Json([next_node |-> n, confidence |-> 80, reasoning |-> "llm"]) :
            n \in PlanActions}

GeneratorReplies == {ChatError, [kind |-> "text"]}

CriticReplies ==
    {ChatError, BadJson, Json(NoEntities),
     Json([is_valid |-> TRUE, overall_score |-> 90]),
     Json([is_valid |-> FALSE, overall_score |-> 40]),
     Json([overall_score |-> 80]),
     Json([is_valid |-> FALSE, score_is_text |-> TRUE])}

ArmRaised == [raised |-> TRUE, results |-> <<>>]
Arm(results) == [raised |-> FALSE, results |-> results]
Hit(pid, score) == [product_id |-> pid, score |-> score]

SemanticArms ==
    {ArmRaised, Arm(<<>>), Arm(<<Hit("p1", 9000)>>),
     Arm(<<Hit("p2", 8000), Hit("p1", 6000)>>)}
KeywordArms == {ArmRaised, Arm(<<>>), Arm(<<Hit("p1", 10000)>>)}
RerankReplies == {[kind |-> "error", scores |-> <<>>]}

Retrievals(top_k) ==
    {retrieve(sem, kw, rr, top_k) : sem \in SemanticArms, kw \in KeywordArms,
                                    rr \in RerankReplies}

CalendarOutcomes == {"disabled", "failed", "created"}

\* data/meeting_rules.yaml: nothing configured, or a configuration that
\* closes tomorrow, has a lunch break and words every message
MeetingRules ==
    {DefaultRules,
     [DefaultRules EXCEPT !.closed_days = {1}, !.lunch_break_enabled = TRUE,
                          !.messages = {"too_far", "non_working_day",
                                        "business_hours_violation", "lunch_time"}]}

\* the minute of the day at which the validator runs: 10:00, 19:00, 21:30
Clock == {600, 1140, 1290}

\* ---------------------------------------------------------------- state
\* pc: the node about to run ("idle" between turns, "end" / "aborted" when
\*     agent.invoke returned / raised)
\* state: the AgentState of the running turn
\* stock: Product.stock of every catalog product
\* effects: the side effects of the running turn, in order
\* current_slots, current_product_id: what the console session persists
\* reply: what process_message returned last
\* history of the running turn: last_node (the node that ran last), ext (the
\* external call that node made and the raw outcome it got), failures (the
\* collaborators whose call failed so far), gen_runs (executions of
\* generate_response)
VARIABLES pc, state, stock, effects, current_slots, current_product_id, reply,
          turn, last_node, ext, failures, gen_runs

vars == <<pc, state, stock, effects, current_slots, current_product_id, reply,
          turn, last_node, ext, failures, gen_runs>>

session == <<current_slots, current_product_id, reply, turn>>

Init ==
    /\ pc = "idle"
    /\ state = initial_state(EmptySlots, None)
    /\ stock = InitialStock
    /\ effects = <<>>
    /\ current_slots = EmptySlots
    /\ current_product_id = None
    /\ reply = None
    /\ turn = 0
    /\ last_node = "none"
    /\ ext = NoCall
    /\ failures = {}
    /\ gen_runs = 0

\* the persisted slots of a session whose last turn confirmed a meeting for p1
ConfirmedMeetingSlots ==
    [EmptySlots EXCEPT !.product_id = "p1", !.meeting_location = "loc_a",
                       !.meeting_date = "tomorrow", !.meeting_time = "15:00"]

\* a session taken up between two turns: after the turn that confirmed that
\* meeting (the slots and the product id are persisted, one unit of p1 is
\* reserved), or after a turn that asked to meet at loc_x about p9, a product
\* the catalog does not hold; turn counts the messages processed from here on
SessionInit ==
    /\ pc = "idle"
    /\ \/ /\ current_slots = ConfirmedMeetingSlots
          /\ current_product_id = "p1"
          /\ stock = [InitialStock EXCEPT !["p1"] = InitialStock["p1"] - 1]
          /\ reply \in {"generated", "apology_generation_error"}
       \/ /\ current_slots = [EmptySlots EXCEPT !.product_id = "p9",
                                                !.meeting_location = "loc_x"]
          /\ current_product_id = "p9"
          /\ stock = InitialStock
          /\ reply = "generated"
    /\ state = initial_state(current_slots, current_product_id)
    /\ effects = <<>>
    /\ turn = 0
    /\ last_node = "none"
    /\ ext = NoCall
    /\ failures = {}
    /\ gen_runs = 0

\* a node returned upd: merge it and follow the node's outgoing edge
Step(node, upd, call) ==
    /\ state' = Merge(state, upd)
    /\ pc' = next_node(node, state')
    /\ last_node' = node
    /\ ext' = call
    /\ failures' = IF call.reply.kind \in {"chat_error", "bad_json"}
                   THEN failures \cup {call.service} ELSE failures

ProcessMessage ==
    /\ pc = "idle"
    /\ turn < MaxTurns
    /\ turn' = turn + 1
    /\ state' = initial_state(current_slots, current_product_id)
    /\ pc' = "classify_intent"
    /\ effects' = <<>>
    /\ last_node' = "none"
    /\ ext' = NoCall
    /\ failures' = {}
    /\ gen_runs' = 0
    /\ reply' = None
    /\ UNCHANGED <<stock, current_slots, current_product_id>>

ClassifyIntent ==
    /\ pc = "classify_intent"
    /\ \E raw \in ClassifierReplies :
          Step("classify_intent", classify_intent_node(state, raw), Call("classifier", raw))
    /\ UNCHANGED <<stock, effects, session, gen_runs>>

CheckSlots ==
    /\ pc = "check_slots"
    /\ Step("check_slots", check_slots_node(state), NoCall)
    /\ UNCHANGED <<stock, effects, session, gen_runs>>

Planning ==
    /\ pc = "planning"
    /\ \E raw \in PlannerReplies :
          Step("planning", planning_node(state, raw), Call("planner", raw))
    /\ UNCHANGED <<stock, effects, session, gen_runs>>

IntelligentRouter ==
    /\ pc = "intelligent_router"
    /\ \E raw \in RouterReplies :
          LET r == intelligent_route_node(state, raw)
          IN Step("intelligent_router", r.update, r.call)
    /\ UNCHANGED <<stock, effects, session, gen_runs>>

\* a capability node returned res, or an exception left it and the graph run
Capability(node, res) ==
    /\ stock' = res.stock
    /\ effects' = effects \o res.effects
    /\ last_node' = node
    /\ ext' = IF res.retrieved
              THEN Call("retrieval", [kind |-> IF res.raised THEN "raised" ELSE "results"])
              ELSE NoCall
    /\ IF res.raised
       THEN /\ pc' = "aborted"
            /\ state' = state
            /\ failures' = failures \cup {"retrieval"}
       ELSE /\ state' = Merge([state EXCEPT !.slots = res.slots], res.update)
            /\ pc' = next_node(node, state')
            /\ failures' = failures
    /\ UNCHANGED <<session, gen_runs>>

RagSearch ==
    /\ pc = "rag_search"
    /\ \E r1 \in Retrievals(TopK), r2 \in Retrievals(TopK) :
          Capability("rag_search", rag_search_node(state, stock, r1, r2))

StockCheck ==
    /\ pc = "stock_check"
    /\ \E r \in Retrievals(5) :
          Capability("stock_check", stock_check_node(state, stock, r))

DeliveryCheck ==
    /\ pc = "delivery_check"
    /\ \E r \in Retrievals(1) :
          Capability("delivery_check", delivery_check_node(state, stock, r))

Bargaining ==
    /\ pc = "bargaining"
    /\ \E r \in Retrievals(1) :
          Capability("bargaining", bargaining_node(state, stock, r))

MeetingPlanning ==
    /\ pc = "meeting_planning"
    /\ \E r \in Retrievals(1), rules \in MeetingRules, now \in Clock,
          calendar \in CalendarOutcomes :
          Capability("meeting_planning",
                     meeting_planning_node(state, stock, r, rules, now, calendar))

GenerateResponse ==
    /\ pc = "generate_response"
    /\ gen_runs' = gen_runs + 1
    /\ \E raw \in GeneratorReplies :
          LET r == generate_response_node(state, raw)
          IN Step("generate_response", r.update, r.call)
    /\ UNCHANGED <<stock, effects, session>>

Reflection ==
    /\ pc = "reflection"
    /\ \E raw \in CriticReplies :
          LET r == reflection_node(state, raw)
          IN Step("reflection", r.update, r.call)
    /\ UNCHANGED <<stock, effects, session, gen_runs>>

\* process_message returned: the AgentState of the turn and its history are
\* gone, the session keeps slots and product_id
TurnOver(slots, product_id) ==
    /\ state' = initial_state(slots, product_id)
    /\ effects' = <<>>
    /\ last_node' = "none"
    /\ ext' = NoCall
    /\ failures' = {}
    /\ gen_runs' = 0

\* process_message after agent.invoke returned: persist slots and product id
ReturnReply ==
    /\ pc = "end"
    /\ pc' = "idle"
    /\ current_slots' = state.slots
    /\ current_product_id' = IF Truthy(state.product_id) THEN state.product_id
                             ELSE current_product_id
    /\ reply' = state.response
    /\ TurnOver(current_slots', current_product_id')
    /\ UNCHANGED <<stock, turn>>

\* the slots of the aborted run are persisted
ReturnError_mut_persists_slots ==
    /\ pc = "aborted"
    /\ pc' = "idle"
    /\ reply' = "apology_processing_error"
    /\ current_slots' = state.slots
    /\ TurnOver(current_slots', current_product_id)
    /\ UNCHANGED <<stock, current_product_id, turn>>

\* process_message when agent.invoke raised
ReturnError ==
    /\ pc = "aborted"
    /\ pc' = "idle"
    /\ reply' = "apology_processing_error"
    /\ TurnOver(current_slots, current_product_id)
    /\ UNCHANGED <<stock, current_slots, current_product_id, turn>>

Next ==
    \/ ProcessMessage
    \/ ClassifyIntent
    \/ CheckSlots
    \/ Planning
    \/ IntelligentRouter
    \/ RagSearch
    \/ StockCheck
    \/ DeliveryCheck
    \/ Bargaining
    \/ MeetingPlanning
    \/ GenerateResponse
    \/ Reflection
    \/ ReturnReply
    \/ ReturnError

Spec == Init /\ [][Next]_vars

\* the turns of a session that has a confirmed meeting behind it
SessionSpec == SessionInit /\ [][Next]_vars

\* ------------------------------------------- calls of single functions
\* The functions of the slot manager and route_by_complexity, called on
\* arguments of their whole domain rather than on the states one turn reaches.
\* pc names the function about to be called, last_node the function that
\* returned; route_by_complexity returns into pc, check_slots_completeness
\* into state.slots_complete and state.missing_slots,
\* extract_slots_from_entities into current_slots.
EntityKeys ==
    {"product_id", "product_name", "product_color", "color", "product_memory", "memory",
     "variant", "price", "location", "date", "time", "delivery_service", "city"}

\* JSON values of an entity: null, the empty string, a text; for price also
\* a numeric string
EntityValues(k) == IF k = "price" THEN {None, "", "80", "cheap"} ELSE {None, "", "new"}

EntityMaps ==
    UNION {{e \in [K -> {None, "", "new", "80", "cheap"}] : \A k \in K : e[k] \in EntityValues(k)} :
             K \in {K \in SUBSET EntityKeys : Cardinality(K) <= MaxEntities}}

SlotsInputs ==
    {[product_id |-> a, product_name |-> b, product_color |-> g, product_memory |-> g,
      product_variant |-> g, offered_price |-> c, agreed_price |-> NoPrice,
      meeting_location |-> d, meeting_date |-> e, meeting_time |-> f,
      delivery_service |-> g, delivery_address |-> g, city |-> g] :
        a \in {None, "p1"}, b \in {None, "phone"}, c \in {NoPrice, 0, 80},
        d \in {None, "loc_a"}, e \in {None, "tomorrow"}, f \in {None, "15:00"},
        g \in {None, "old"}}

RouteInputs ==
    {[initial_state([EmptySlots EXCEPT !.product_id = sid, !.product_name = name], pid)
        EXCEPT !.intent = intent, !.intent_confidence = confidence,
               !.slots_complete = complete] :
        intent \in Intents \cup {"smalltalk"}, confidence \in {0, 50, 69, 70, 90, 100},
        complete \in BOOLEAN, name \in {None, "phone"}, sid \in {None, "p1"},
        pid \in {None, "p1"}}

CheckInputs ==
    {[initial_state(slots, None) EXCEPT !.intent = intent] :
        intent \in Intents, slots \in SlotsInputs}

ExtractInputs ==
    {[initial_state(slots, None) EXCEPT !.entities = entities] :
        entities \in EntityMaps,
        slots \in {x \in SlotsInputs : x.meeting_date = None /\ x.meeting_time = None}}

\* evaluate_offer: state holds the arguments of the call, the decision it
\* returned, and the lower offer made before with its decision
OfferProducts ==
    {[price |-> p, min_price |-> m, max_discount_percent |-> d, bargaining_allowed |-> b] :
        p \in {40, 100}, m \in {30, 80, 95}, d \in {0, 10, 20}, b \in BOOLEAN}

OfferInputs ==
    {[product |-> product, offered_price |-> o, decision |-> "none",
      lower_offer |-> NoPrice, lower_decision |-> "none"] :
        product \in OfferProducts, o \in 0..MaxOffer}

\* validate_meeting_time(date, time) under a rules file and at a clock
ValidatorInputs ==
    LET AllMessages == {"too_far", "non_working_day", "business_hours_violation",
                        "lunch_time"}
        ValidatorRules ==
            {[DefaultRules EXCEPT !.end_time = e, !.messages = m,
                                  !.lunch_break_enabled = l, !.closed_days = c] :
                e \in {"19:59", "20:00"}, m \in {{}, AllMessages}, l \in BOOLEAN,
                c \in {{}, {1}}}
        TimeTexts == DOMAIN TimeTable \cup {"utrom", "dnem", "vecherom", "nochyu", "later"}
        DateTexts == {"today", "tomorrow", "in_40_days", "someday"}
    IN {[rules |-> rules, now |-> now, date |-> date, time |-> time, verdict |-> None] :
           rules \in ValidatorRules, now \in Clock, date \in DateTexts, time \in TimeTexts}

\* the date slot of a confirmed meeting and the day it is confirmed on
MeetingDateInputs ==
    LET Words == {[fmt |-> "word", word |-> w] : w \in {"today", "tomorrow", "friday"}}
        Written == {[fmt |-> f, y |-> y, m |-> m, d |-> d] :
                       f \in {"ymd", "dmy"}, y \in {2026, 2027}, m \in {1, 2, 6, 12},
                       d \in {1, 15, 31}}
        Short == {[fmt |-> "dm", m |-> m, d |-> d] : m \in {1, 2, 6, 12}, d \in {1, 15, 31}}
    IN {[today |-> today, date |-> date, checked |-> None, booked |-> None] :
           today \in {<<2026, 6, 14>>, <<2026, 12, 31>>},
           date \in Words \cup Written \cup Short}

\* sessions confirming a meeting for the same product, each inside
\* Product.reserve: before the stock test ("check"), between the test and
\* the read of the stock it decrements ("load"), between that read and the
\* write ("store"), or returned ("done")
Sessions == 1..MaxSessions

ReserveInputs ==
    {[product_id |-> p, initial_stock |-> n,
      sessions |-> [i \in Sessions |-> [at |-> "check", seen |-> 0, result |-> "none"]]] :
        p \in Products, n \in 0..2}

\* RAG_SEMANTIC_WEIGHT and RAG_KEYWORD_WEIGHT, configured in hundredths
WeightInputs ==
    LET WeightHundredths == {10, 20, 30, 40, 50, 60, 70, 80, 90, 3, 7, 8, 29}
    IN {[configured |-> <<a, b>>, weights |-> None] :
           a \in WeightHundredths, b \in WeightHundredths}

\* the result lists of the two arms: up to two results, the product of a
\* result known to the repository or not
FusionInputs ==
    LET Result == [product_id : Products \cup {"p9"}, score : {2000, 9000}]
        ArmResults ==
            {<<>>} \cup {<<r>> : r \in Result}
                   \cup {<<r1, r2>> : r1 \in Result, r2 \in Result}
    IN {[semantic_results |-> sem, keyword_results |-> kw, combined |-> <<>>] :
           sem \in ArmResults, kw \in ArmResults}

\* retrieve(query, top_k): the lists of the two arms (each sorted by
\* descending score, the semantic one possibly with a product the repository
\* does not know or with one product twice), the outcome of the
\* relevance-scoring step and top_k
RetrieveInputs ==
    LET Sem == [product_id : Products \cup {"p9"}, score : {4000, 9000}]
        Kw == [product_id : Products, score : {5000, 10000}]
        SemLists ==
            {<<>>} \cup {<<a>> : a \in Sem}
                   \cup {t \in {<<a, b>> : a \in Sem, b \in Sem} : t[1].score >= t[2].score}
                   \cup {t \in {<<a, b, c>> : a \in Sem, b \in Sem, c \in Sem} :
                            /\ t[1].score >= t[2].score /\ t[2].score >= t[3].score
                            /\ Cardinality({t[1].product_id, t[2].product_id,
                                            t[3].product_id}) = 3}
        KwLists ==
            {<<>>} \cup {<<a>> : a \in Kw}
                   \cup {t \in {<<a, b>> : a \in Kw, b \in Kw} :
                            t[1].score >= t[2].score /\ t[1].product_id /= t[2].product_id}
        Scores == {1000, 9000}
        Replies ==
            {[kind |-> "error", scores |-> <<>>], [kind |-> "scores", scores |-> <<>>]}
            \cup {[kind |-> "scores", scores |-> <<a, b>>] : a \in Scores, b \in Scores}
            \cup {[kind |-> "scores", scores |-> <<a, b, c>>] :
                     a \in Scores, b \in Scores, c \in Scores}
    IN {[semantic_results |-> sem, keyword_results |-> kw, rerank_reply |-> rr,
         top_k |-> k, results |-> <<>>] :
           sem \in SemLists, kw \in KwLists, rr \in Replies, k \in {1, TopK}}

\* rerank(query, results): a sorted candidate list of two or three products
\* and the outcome of the relevance-scoring step: "error" (the call raised,
\* the reply held no JSON or a score that is no number) or the list of
\* scores the reply held, which may be shorter or longer than the candidates
RerankInputs ==
    LET Cand == [product_id : Products \cup {"p9"}, score : {4000, 6000, 9000}]
        Sorted(t) == \A i \in 1..(Len(t) - 1) : t[i].score >= t[i + 1].score
        Distinct(t) == Cardinality({t[i].product_id : i \in 1..Len(t)}) = Len(t)
        Lists ==
            {t \in {<<a, b>> : a \in Cand, b \in Cand} \cup
                    {<<a, b, c>> : a \in Cand, b \in Cand, c \in Cand} :
                Sorted(t) /\ Distinct(t)}
        Scores == {2999, 3000, 9000}
        Replies ==
            {[kind |-> "error", scores |-> <<>>], [kind |-> "scores", scores |-> <<>>],
             [kind |-> "scores", scores |-> <<9000, 2999, 9000, 9000>>]}
            \cup {[kind |-> "scores", scores |-> <<a, b>>] : a \in Scores, b \in Scores}
            \cup {[kind |-> "scores", scores |-> <<a, b, c>>] :
                     a \in Scores, b \in Scores, c \in Scores}
    IN {[results |-> t, rerank_reply |-> rr, reranked |-> <<>>] :
           t \in Lists, rr \in Replies}

CallInit ==
    /\ \/ pc = "route_by_complexity" /\ state \in RouteInputs /\ stock = InitialStock
       \/ pc = "check_slots_completeness" /\ state \in CheckInputs /\ stock = InitialStock
       \/ pc = "extract_slots_from_entities" /\ state \in ExtractInputs /\ stock = InitialStock
       \/ pc = "evaluate_offer" /\ state \in OfferInputs /\ stock = InitialStock
       \/ pc = "validate_meeting_time" /\ state \in ValidatorInputs /\ stock = InitialStock
       \/ pc = "HybridRetriever" /\ state \in WeightInputs /\ stock = InitialStock
       \/ pc = "combine_results" /\ state \in FusionInputs /\ stock = InitialStock
       \/ pc = "retrieve" /\ state \in RetrieveInputs /\ stock = InitialStock
       \/ pc = "rerank" /\ state \in RerankInputs /\ stock = InitialStock
       \/ pc = "meeting_date" /\ state \in MeetingDateInputs /\ stock = InitialStock
       \/ /\ pc = "reserve_product"
          /\ state \in ReserveInputs
          /\ stock \in [Products -> 0..2]
          /\ stock[state.product_id] = state.initial_stock
    /\ effects = <<>>
    /\ current_slots = EmptySlots
    /\ current_product_id = None
    /\ reply = None
    /\ turn = 0
    /\ last_node = "none"
    /\ ext = NoCall
    /\ failures = {}
    /\ gen_runs = 0

CallRouteByComplexity ==
    /\ pc = "route_by_complexity"
    /\ pc' = route_by_complexity(state)
    /\ last_node' = "route_by_complexity"
    /\ UNCHANGED <<state, stock, effects, session, ext, failures, gen_runs>>

CallCheckSlotsCompleteness ==
    /\ pc = "check_slots_completeness"
    /\ LET r == check_slots_completeness(state.intent, state.slots)
       IN state' = [state EXCEPT !.slots_complete = r.is_complete,
                                 !.missing_slots = r.missing]
    /\ pc' = "returned"
    /\ last_node' = "check_slots_completeness"
    /\ UNCHANGED <<stock, effects, session, ext, failures, gen_runs>>

CallExtractSlots ==
    /\ pc = "extract_slots_from_entities"
    /\ current_slots' = extract_slots_from_entities(state.entities, state.slots)
    /\ pc' = "returned"
    /\ last_node' = "extract_slots_from_entities"
    /\ UNCHANGED <<state, stock, effects, current_product_id, reply, turn, ext,
                   failures, gen_runs>>

\* the next turn: the slots the last call returned are the session's slots,
\* and the classifier's next entity map is merged into them
CallExtractSlotsNextTurn ==
    /\ pc = "returned"
    /\ last_node = "extract_slots_from_entities"
    /\ turn + 1 < MaxCalls
    /\ \E entities \in {e \in EntityMaps : Cardinality(DOMAIN e) <= 1} :
          state' = [state EXCEPT !.slots = current_slots, !.entities = entities]
    /\ pc' = "extract_slots_from_entities"
    /\ turn' = turn + 1
    /\ UNCHANGED <<stock, effects, current_slots, current_product_id, reply, last_node,
                   ext, failures, gen_runs>>

CallEvaluateOffer ==
    /\ pc = "evaluate_offer"
    /\ state' = [state EXCEPT !.decision = evaluate_offer(state.product, state.offered_price)]
    /\ pc' = "returned"
    /\ last_node' = "evaluate_offer"
    /\ UNCHANGED <<stock, effects, session, ext, failures, gen_runs>>

\* the buyer raises the offer for the same product
CallEvaluateOfferRaised ==
    /\ pc = "returned"
    /\ last_node = "evaluate_offer"
    /\ turn + 1 < MaxCalls
    /\ \E o \in 0..MaxOffer :
          /\ o >= state.offered_price
          /\ state' = [state EXCEPT !.offered_price = o, !.decision = "none",
                                    !.lower_offer = state.offered_price,
                                    !.lower_decision = state.decision]
    /\ pc' = "evaluate_offer"
    /\ turn' = turn + 1
    /\ UNCHANGED <<stock, effects, current_slots, current_product_id, reply, last_node,
                   ext, failures, gen_runs>>

CallValidateMeetingTime ==
    /\ pc = "validate_meeting_time"
    /\ state' = [state EXCEPT !.verdict = validate_meeting_time(state.rules, state.now,
                                                               state.date, state.time)]
    /\ pc' = "returned"
    /\ last_node' = "validate_meeting_time"
    /\ UNCHANGED <<stock, effects, session, ext, failures, gen_runs>>

\* session i of the reserve calls takes its next step; the calls are over
\* when every session has returned
ReserveStep(i, at, seen, result, stk) ==
    /\ state' = [state EXCEPT !.sessions[i] = [at |-> at, seen |-> seen, result |-> result]]
    /\ stock' = stk
    /\ pc' = IF \A j \in Sessions : state'.sessions[j].at = "done"
             THEN "returned" ELSE "reserve_product"
    /\ last_node' = "reserve_product"
    /\ UNCHANGED <<effects, session, ext, failures, gen_runs>>

\* if self.stock >= quantity: ... return False
ReserveCheck ==
    /\ pc = "reserve_product"
    /\ \E i \in Sessions :
          /\ state.sessions[i].at = "check"
          /\ IF stock[state.product_id] >= 1
             THEN ReserveStep(i, "load", 0, "none", stock)
             ELSE ReserveStep(i, "done", 0, "failed", stock)

\* self.stock -= quantity, the read
ReserveLoad ==
    /\ pc = "reserve_product"
    /\ \E i \in Sessions :
          /\ state.sessions[i].at = "load"
          /\ ReserveStep(i, "store", stock[state.product_id], "none", stock)

\* self.stock -= quantity, the write; return True
ReserveStore ==
    /\ pc = "reserve_product"
    /\ \E i \in Sessions :
          /\ state.sessions[i].at = "store"
          /\ ReserveStep(i, "done", 0, "reserved",
                         [stock EXCEPT ![state.product_id] = state.sessions[i].seen - 1])

CallHybridRetriever ==
    /\ pc = "HybridRetriever"
    /\ state' = [state EXCEPT !.weights =
                    normalized_weights(FloatOfHundredths(state.configured[1]),
                                       FloatOfHundredths(state.configured[2]))]
    /\ pc' = "returned"
    /\ last_node' = "HybridRetriever"
    /\ UNCHANGED <<stock, effects, session, ext, failures, gen_runs>>

CallCombineResults ==
    /\ pc = "combine_results"
    /\ state' = [state EXCEPT !.combined = combine_results(state.semantic_results,
                                                          state.keyword_results)]
    /\ pc' = "returned"
    /\ last_node' = "combine_results"
    /\ UNCHANGED <<stock, effects, session, ext, failures, gen_runs>>

CallRetrieve ==
    /\ pc = "retrieve"
    /\ state' = [state EXCEPT !.results =
                    retrieve(Arm(state.semantic_results), Arm(state.keyword_results),
                             state.rerank_reply, state.top_k).results]
    /\ pc' = "returned"
    /\ last_node' = "retrieve"
    /\ UNCHANGED <<stock, effects, session, ext, failures, gen_runs>>

CallRerank ==
    /\ pc = "rerank"
    /\ state' = [state EXCEPT !.reranked = rerank(state.results, state.rerank_reply)]
    /\ pc' = "returned"
    /\ last_node' = "rerank"
    /\ UNCHANGED <<stock, effects, session, ext, failures, gen_runs>>

\* a meeting is confirmed for state.date: the validator resolves the day it
\* checks, the node the day of the calendar event
CallMeetingDate ==
    /\ pc = "meeting_date"
    /\ state' = [state EXCEPT !.checked = get_datetime(state.today, state.date),
                              !.booked = calendar_event_day(state.today, state.date)]
    /\ pc' = "returned"
    /\ last_node' = "meeting_date"
    /\ UNCHANGED <<stock, effects, session, ext, failures, gen_runs>>

CallNext ==
    \/ CallMeetingDate
    \/ CallRetrieve
    \/ CallRerank
    \/ CallHybridRetriever
    \/ CallCombineResults
    \/ CallValidateMeetingTime
    \/ ReserveCheck
    \/ ReserveLoad
    \/ ReserveStore
    \/ CallRouteByComplexity
    \/ CallCheckSlotsCompleteness
    \/ CallExtractSlots
    \/ CallExtractSlotsNextTurn
    \/ CallEvaluateOffer
    \/ CallEvaluateOfferRaised

CallSpec == CallInit /\ [][CallNext]_vars

\* ======================================================================
\* Claims
\* ======================================================================

\* the actions of the first current_step steps of the plan of s
ExecutedPlanActions(s) ==
    [i \in 1..s.current_step |-> Get(s.execution_plan.plan[i], "action", None)]

\* the external call of the step just taken failed
CallFailed(call) == call.reply.kind \in {"chat_error", "bad_json"}

\* C1: within one turn regeneration_count never decreases, and it never
\* exceeds 2 in any reachable state, whatever the critic answers.
C1_RegenerationCountMonotoneBounded ==
    /\ [](state.regeneration_count <= 2)
    /\ [][(pc \in GraphNodes)
          => state'.regeneration_count >= state.regeneration_count]_vars

C1_Witness == pc = "generate_response" /\ state.regeneration_count = 2

\* C2: when reflection_node runs with regeneration_count = 2 it returns
\* needs_regeneration = FALSE whatever the critic would answer, and
\* route_after_reflection leads to end.
C2_ForcedPassAtBound ==
    [][pc = "reflection" /\ state.regeneration_count = 2
       => /\ state'.needs_regeneration = FALSE
          /\ state'.reflection_result = "max_retries_reached"
          /\ ext'.service = "none"
          /\ pc' = "end"]_vars

C2_Witness ==
    /\ pc = "end"
    /\ last_node = "reflection"
    /\ state.regeneration_count = 2
    /\ state.reflection_result = "max_retries_reached"

\* C3: every turn terminates by reaching end, for any plan, router decisions
\* and critic verdicts, provided each external call returns or fails: a node
\* of a running turn hands over to another node of the graph or to end (the
\* graph run is left no other way), and generate_response runs at most
\* 1 + 2 times in a turn.
C3_EveryTurnRunsToEnd ==
    /\ [](gen_runs <= 1 + MaxRegenerations)
    /\ [][(pc \in GraphNodes) => (pc' \in GraphNodes \cup {"end"})]_vars

\* C4: a turn starts at classify_intent; end is entered only from reflection;
\* in every completed turn generate_response has run at least once and
\* reflection is the last node executed before end.
C4_EndOnlyFromReflection ==
    /\ (pc = "end" => gen_runs >= 1 /\ last_node = "reflection")
    /\ ((pc /= "idle" /\ last_node = "none") => pc = "classify_intent")
    /\ (pc = "classify_intent" => last_node = "none")

C4_Witness ==
    /\ pc = "end"
    /\ last_node = "reflection"
    /\ gen_runs >= 2
    /\ state.current_step >= 1

C6_RetrievalFailureDoesNotAbort ==
    [][(pc \in CapabilityNodes) /\ ext'.service = "retrieval"
       => /\ ext'.reply.kind = "results"
          /\ (pc' = "intelligent_router" \/ pc' = "generate_response")]_vars

\* C7: after a capability node finishes, control returns to the routing node
\* if and only if an execution plan exists and current_step < number of plan
\* steps; otherwise control proceeds to generate_response.
C7_AfterCapabilityRouting ==
    (last_node \in CapabilityNodes /\ pc /= "aborted")
    => IF /\ state.execution_plan.present
          /\ Len(state.execution_plan.plan) > 0
          /\ state.current_step < Len(state.execution_plan.plan)
       THEN pc = "intelligent_router"
       ELSE pc = "generate_response"

C7_Witness ==
    /\ pc = "intelligent_router"
    /\ last_node \in CapabilityNodes
    /\ state.current_step < Len(state.execution_plan.plan)

\* C8: with a non-empty plan and current_step < number of plan steps the
\* routing node takes the action of the plan step at current_step without
\* calling the external router, increases current_step by exactly 1 and
\* appends that action to completed_steps; the external router is consulted
\* only when no plan step is pending.
C8_PlanStepTakenWithoutRouter ==
    [][/\ (/\ pc = "intelligent_router"
           /\ state.execution_plan.present
           /\ Len(state.execution_plan.plan) > 0
           /\ state.current_step < Len(state.execution_plan.plan)
           => /\ state'.routing_decision =
                    state.execution_plan.plan[state.current_step + 1].action
              /\ state'.current_step = state.current_step + 1
              /\ state'.completed_steps =
                    Append(state.completed_steps, state'.routing_decision)
              /\ state'.routing_reasoning = "plan_step"
              /\ ext'.service = "none")
       /\ (pc = "intelligent_router" /\ ext'.service = "router"
           => ~(/\ Len(state.execution_plan.plan) > 0
                /\ state.current_step < Len(state.execution_plan.plan)))]_vars

C8_Witness ==
    /\ last_node = "intelligent_router"
    /\ ext.service = "none"
    /\ state.current_step = 2
    /\ state.completed_steps = <<"stock_check", "unknown_action">>

\* C9: in every reachable state current_step <= number of plan steps and
\* completed_steps is exactly the list of actions of the first current_step
\* plan steps.
C9_CompletedStepsArePlanPrefix ==
    /\ state.current_step <= Len(state.execution_plan.plan)
    /\ state.completed_steps = ExecutedPlanActions(state)

C9_Witness ==
    /\ pc = "end"
    /\ state.current_step = 2
    /\ Len(state.execution_plan.plan) = 2
    /\ state.completed_steps = <<"bargaining", "meeting_planning">>

C11_RouterErrorFallsBackToRagSearch ==
    (last_node = "intelligent_router" /\ ext.service = "router" /\ CallFailed(ext))
    => /\ state.routing_decision = "rag_search"
       /\ state.routing_confidence = FallbackConfidence
       /\ state.routing_reasoning = "fallback_llm_routing_error"
       /\ pc = "rag_search"

C11_Witness ==
    /\ pc = "rag_search"
    /\ last_node = "intelligent_router"
    /\ ext = Call("router", ChatError)
    /\ state.routing_reasoning = "fallback_llm_routing_error"

\* C12: whenever the planning call errors or returns a malformed structure
\* (a result without a step list), the state after the planning node holds
\* the canonical 2-step plan [rag_search, generate_response].
C12_PlanningAlwaysLeavesCanonicalPlan ==
    [][/\ pc = "planning"
       /\ \/ CallFailed(ext')
          \/ ext'.reply.kind = "json" /\ "plan" \notin DOMAIN ext'.reply.json
       => /\ state'.execution_plan.plan = FallbackPlan.plan
          /\ HasPlan(state')]_vars

\* C13: when the reply produced by generate_response is the clarification
\* question itself (the generator was not called), reflection does not
\* consult the critic, returns needs_regeneration = FALSE and the turn ends
\* after a single generation.
C13_ClarificationReplySkipsCritic ==
    [][/\ pc = "reflection"
       /\ last_node = "generate_response"
       /\ ext.service = "none"
       => /\ state.response = state.clarification_question
          /\ ext'.service = "none"
          /\ state'.needs_regeneration = FALSE
          /\ pc' = "end"
          /\ gen_runs' = 1]_vars

C13_Witness ==
    /\ pc = "end"
    /\ state.reflection_result = "clarification_question"
    /\ state.response = state.clarification_question
    /\ gen_runs = 1

\* C14: whenever reflection runs with regeneration_count < 2 and the reply
\* was written by the response generator (it is not the clarification
\* question), the external critic is consulted for that reply.
C14_GeneratedReplyIsCriticised ==
    [][/\ pc = "reflection"
       /\ state.regeneration_count < MaxRegenerations
       /\ last_node = "generate_response"
       /\ ext.service = "generator"
       => ext'.service = "critic"]_vars

\* the critic's verdict on the reply, as validate_response hands it on
ReportedValid(call) == Get(validate_response(call.reply), "is_valid", TRUE)

\* C15: when the critic is consulted and reports the reply invalid, control
\* goes back to generate_response with regeneration_count increased by
\* exactly 1; when it reports the reply valid, regeneration_count is
\* unchanged and the turn ends.
C15_CriticVerdictDrivesRegeneration ==
    [][pc = "reflection" /\ ext'.service = "critic" /\ ext'.reply.kind = "json"
       => IF ReportedValid(ext')
          THEN /\ state'.regeneration_count = state.regeneration_count
               /\ pc' = "end"
          ELSE /\ state'.regeneration_count = state.regeneration_count + 1
               /\ pc' = "generate_response"]_vars

\* C18: in every state reached after the slot-check node, slots_complete
\* equals (missing_slots is empty), and no later node of the turn breaks it.
C18_SlotsCompleteIffNothingMissing ==
    pc \in (GraphNodes \cup {"end", "aborted"}) \ {"classify_intent", "check_slots"}
        => (state.slots_complete <=> state.missing_slots = <<>>)

C18_Witness ==
    /\ pc = "end"
    /\ ~state.slots_complete
    /\ Len(state.missing_slots) = 2
    /\ state.current_step = 2

\* C16: route_by_complexity returns "planning" for every state whose intent
\* is bargaining or meeting_planning, whatever the confidence, slots and
\* product id are.
C16_ComplexIntentsArePlanned ==
    (/\ last_node = "route_by_complexity"
     /\ pc /= "route_by_complexity"
     /\ state.intent \in {"bargaining", "meeting_planning"})
    => pc = "planning"

C16_Witness ==
    /\ pc = "planning"
    /\ last_node = "route_by_complexity"
    /\ state.intent = "bargaining"
    /\ state.intent_confidence = 100
    /\ state.slots_complete
    /\ state.slots.product_id = "p1"

\* the second complexity rule matches: a product-dependent intent with a
\* product name and no product id
NameWithoutId(s) ==
    /\ s.intent \in product_dependent_intents
    /\ s.slots.product_name /= None
    /\ ~(Truthy(s.slots.product_id) \/ Truthy(s.product_id))

\* C17: for every state not matched by the two earlier complexity rules,
\* route_by_complexity returns "planning" whenever intent_confidence < 0.7
\* and slots_complete is false.
C17_LowConfidenceIncompleteIsPlanned ==
    [][/\ pc = "route_by_complexity"
       /\ state.intent \notin {"bargaining", "meeting_planning"}
       /\ ~NameWithoutId(state)
       /\ state.intent_confidence < ComplexityConfidence
       /\ ~state.slots_complete
       => pc' = "planning"]_vars

\* the entity keys extract_slots_from_entities reads for a slot
EntityKeysOf(slot) ==
    CASE slot = "product_id" -> {"product_id"}
      [] slot = "product_name" -> {"product_name"}
      [] slot = "product_color" -> {"product_color", "color"}
      [] slot = "product_memory" -> {"product_memory", "memory"}
      [] slot = "product_variant" -> {"variant"}
      [] slot = "offered_price" -> {"price"}
      [] slot = "meeting_location" -> {"location"}
      [] slot = "meeting_date" -> {"date"}
      [] slot = "meeting_time" -> {"time"}
      [] slot = "delivery_service" -> {"delivery_service"}
      [] slot = "city" -> {"city"}
      [] OTHER -> {}

\* C19: extract_slots_from_entities is a non-destructive merge: with an
\* empty entity map it returns the current slots, and a slot that was set
\* stays set, and keeps its old value unless the entity map supplies a
\* non-empty value for that field; the slots one call returns are the slots
\* the next turn's call receives, so no sequence of calls clears a set slot.
C19_ExtractSlotsNeverClears ==
    /\ (pc = "returned" /\ last_node = "extract_slots_from_entities")
          => /\ (DOMAIN state.entities = {} => current_slots = state.slots)
             /\ \A slot \in DOMAIN EmptySlots :
                   ~SlotIsNone(state.slots, slot)
                   => /\ ~SlotIsNone(current_slots, slot)
                      /\ (current_slots[slot] /= state.slots[slot]
                          => \E k \in EntityKeysOf(slot) : Has(state.entities, k))
    /\ (pc = "extract_slots_from_entities" /\ last_node = "extract_slots_from_entities")
          => state.slots = current_slots

C19_Witness ==
    /\ pc = "returned"
    /\ last_node = "extract_slots_from_entities"
    /\ turn = 1
    /\ state.entities = [location |-> ""]
    /\ state.slots.product_name = "phone"
    /\ state.slots.meeting_location = "new"
    /\ state.slots.city = "new"
    /\ current_slots = state.slots

\* C20: for every intent that requires product_id, check_slots_completeness
\* lists product_id as missing exactly when product_id and product_name are
\* both absent; a present product_name stands in for an absent product_id.
C20_ProductNameStandsInForProductId ==
    (/\ pc = "returned"
     /\ last_node = "check_slots_completeness"
     /\ InSeq("product_id", REQUIREMENTS(state.intent)))
    => (InSeq("product_id", state.missing_slots)
        <=> (state.slots.product_id = None /\ state.slots.product_name = None))

C20_Witness ==
    /\ pc = "returned"
    /\ last_node = "check_slots_completeness"
    /\ state.intent = "warranty_question"
    /\ state.slots.product_id = None
    /\ state.slots.product_name = "phone"
    /\ state.missing_slots = <<>>
    /\ state.slots_complete

\* C21: within a turn, once the state's product_id is non-null no later node
\* sets it to null or to another product id, and a capability node that runs
\* with it makes no retrieval call to derive a product from the utterance.
C21_ResolvedProductIdIsKept ==
    [][(pc \in GraphNodes /\ Truthy(state.product_id))
       => /\ state'.product_id = state.product_id
          /\ (pc \in CapabilityNodes => ext'.service /= "retrieval")]_vars

C23_BelowFloorDeclined ==
    [][(pc = "evaluate_offer" /\ state.offered_price < state.product.min_price)
       => state'.decision = "decline"]_vars

\* decline < counter_offer < accept
Favourability(decision) ==
    CASE decision = "decline" -> 0
      [] decision = "counter_offer" -> 1
      [] decision = "accept" -> 2

\* C24: for a fixed product the decision of evaluate_offer is monotonic in
\* the offered price: the decision for an offer is at least as favourable
\* as the decision for any lower offer, in the order
\* decline < counter_offer < accept.
C24_DecisionMonotonicInOffer ==
    (pc = "returned" /\ last_node = "evaluate_offer" /\ state.lower_offer /= NoPrice)
    => /\ state.lower_offer <= state.offered_price
       /\ state.lower_decision = evaluate_offer(state.product, state.lower_offer)
       /\ Favourability(state.decision) >= Favourability(state.lower_decision)

C24_Witness ==
    /\ pc = "returned"
    /\ last_node = "evaluate_offer"
    /\ state.lower_offer = 84
    /\ state.lower_decision = "decline"
    /\ state.offered_price = 85
    /\ state.decision = "counter_offer"
    /\ state.product.price = 100

\* C25: if the stock reservation in the meeting handler fails, the handler
\* aborts with no side effects: stock is unchanged, no calendar event is
\* created, no meeting notification is sent, and action_result reports the
\* failure.
C25_FailedReservationHasNoSideEffects ==
    [][(pc = "meeting_planning" /\ pc' /= "aborted")
       => /\ (state'.action_result = "reserve_failed"
              => stock' = stock /\ effects' = effects)
          /\ (stock' = stock => effects' = effects)
          /\ LET known == Or(state.product_id, state.slots.product_id)
             IN (known \in Products /\ stock[known] < 1)
                => /\ stock' = stock
                   /\ effects' = effects
                   /\ state'.action_result
                        \notin {"meeting_confirmed", "meeting_confirmed_calendar"}]_vars

C25_Witness ==
    /\ last_node = "meeting_planning"
    /\ state.action_result = "reserve_failed"
    /\ state.slots.product_id = "p2"
    /\ stock = InitialStock
    /\ effects = <<>>

\* C26: on the meeting confirmation path the side effects happen in the
\* order reserve stock, then create calendar event (when the calendar is
\* enabled), then send meeting notification; a calendar failure neither
\* restores the reserved unit nor suppresses the notification and the
\* confirmation reply.
C26_ConfirmationEffectsInOrder ==
    [][(pc = "meeting_planning" /\ stock' /= stock)
       => /\ \E p \in Products : stock[p] >= 1 /\ stock' = [stock EXCEPT ![p] = @ - 1]
          /\ \E cal \in {<<>>, <<"calendar_event">>, <<"calendar_failed">>} :
                /\ effects' = effects \o <<"reserve">> \o cal \o <<"notify_meeting_scheduled">>
                /\ state'.action_result =
                      IF cal = <<"calendar_event">> THEN "meeting_confirmed_calendar"
                      ELSE "meeting_confirmed"]_vars

C26_Witness ==
    /\ last_node = "meeting_planning"
    /\ effects = <<"reserve", "calendar_failed", "notify_meeting_scheduled">>
    /\ stock["p1"] = InitialStock["p1"] - 1
    /\ state.action_result = "meeting_confirmed"

\* C27: the meeting handler reserves stock only in a state where the product
\* is resolved and found, meeting_location is one of the product's allowed
\* meeting locations, date and time are both set, and validate_meeting_time
\* returned valid; in every other state it reserves nothing and asks for
\* clarification.
C27_ReservesOnlyWhenReadyElseClarifies ==
    [][LET \* the meeting for product p can be confirmed: the location is one
           \* of p's, date and time are set and the validator accepts them
           MeetingReady(s, p) ==
               /\ p \in Products
               /\ s.slots.meeting_location \in Catalog[p].meeting_locations
               /\ Truthy(s.slots.meeting_date)
               /\ Truthy(s.slots.meeting_time)
               /\ \E rules \in MeetingRules, now \in Clock :
                     validate_meeting_time(rules, now, s.slots.meeting_date,
                                           s.slots.meeting_time).is_valid
           known == Or(state.product_id, state.slots.product_id)
       IN (pc = "meeting_planning" /\ pc' /= "aborted")
          => /\ (stock' /= stock
                 => \E p \in Products :
                       /\ MeetingReady(state, p)
                       /\ state'.product_id = p
                       /\ stock' = [stock EXCEPT ![p] = @ - 1])
             /\ ((IF Truthy(known) THEN ~MeetingReady(state, known)
                  ELSE \A p \in Products : ~MeetingReady(state, p))
                 => stock' = stock /\ state'.needs_clarification = TRUE)]_vars

\* C28: with two or more sessions concurrently confirming meetings for the
\* same product, the check and the decrement of Product.reserve are never
\* interleaved: no two sessions are between the check and the decrement at
\* once, the number of successful reservations never exceeds the initial
\* stock and stock never becomes negative.
C28_ReserveNeverOversells ==
    LET \* the reserve calls of the sessions are running or have all returned
        ReserveCalls ==
            pc = "reserve_product" \/ (pc = "returned" /\ last_node = "reserve_product")
        \* the sessions whose reserve call returned True
        Reserved == {i \in Sessions : state.sessions[i].result = "reserved"}
        \* the sessions between the stock test and the write of the decrement
        Decrementing == {i \in Sessions : state.sessions[i].at \in {"load", "store"}}
    IN ReserveCalls
       => /\ Cardinality(Decrementing) <= 1
          /\ Cardinality(Reserved) <= state.initial_stock
          /\ stock[state.product_id] >= 0

\* C29: with all other legality rules satisfied, validate_meeting_time
\* accepts a candidate time exactly equal to the business-hours end_time and
\* rejects a time one minute after end_time, returning a non-empty issue
\* list and a non-empty suggested alternative.
C29_EndTimeAcceptedMinuteAfterRejected ==
    [][(/\ pc = "validate_meeting_time"
        \* every legality rule other than business hours accepts the date and time
        /\ state.rules.business_hours_enabled
        /\ validate_meeting_time([state.rules EXCEPT !.business_hours_enabled = FALSE],
                                 state.now, state.date, state.time).is_valid
        /\ TimeTable[normalize_fuzzy_time(state.time)] >= TimeTable[state.rules.start_time])
       => LET minute == TimeTable[normalize_fuzzy_time(state.time)]
              end == TimeTable[state.rules.end_time]
          IN /\ (minute = end => state'.verdict.is_valid)
             /\ (minute = end + 1
                 => /\ ~state'.verdict.is_valid
                    /\ state'.verdict.issues /= <<>>
                    /\ state'.verdict.suggestion \notin {None, ""})]_vars

\* w_s + w_k of the normalised weights, as the retriever's floats add up
WeightSum(w) == Double("add", w.semantic_weight, w.keyword_weight)

\* every candidate of the fused list carries the weighted sum of the scores
\* the two arms gave its product, 0 for the arm that did not return it
FusedScoresAreWeightedSums(semantic_results, keyword_results, combined) ==
    LET ArmScore(results, pid) ==
            LET found == {i \in 1..Len(results) : results[i].product_id = pid}
            IN IF found = {} THEN 0
               ELSE results[CHOOSE i \in found : \A k \in found : k <= i].score
    IN \A i \in 1..Len(combined) :
          LET pid == combined[i].product_id
          IN /\ combined[i].score =
                  (ArmScore(semantic_results, pid) * semantic_weight
                   + ArmScore(keyword_results, pid) * keyword_weight) \div 100
             /\ \/ ArmScore(semantic_results, pid) > 0
                \/ ArmScore(keyword_results, pid) > 0

\* C30 as stated: for any configured positive weights the retriever's
\* w_s + w_k == 1, and every candidate produced by fusion has
\* score == semantic_score*w_s + keyword_score*w_k, where the score of the
\* arm that did not return the product is 0.
C30_WeightsSumToOneAndFusionWeighted ==
    [][/\ (pc = "HybridRetriever" => WeightSum(state'.weights) = Double("int", 1, 0))
       /\ (pc = "combine_results"
           => FusedScoresAreWeightedSums(state.semantic_results, state.keyword_results,
                                         state'.combined))]_vars

\* C30, amended: for configured positive weights the retriever's w_s + w_k
\* equals 1 up to the rounding of double-precision division and addition
\* (it is at most 2^-52 away from 1, and exactly 1 for the default weights
\* 0.4 and 0.6), and every candidate produced by fusion has
\* score == semantic_score*w_s + keyword_score*w_k, where the score of the
\* arm that did not return the product is 0.
C30_WeightsSumToOneUpToRounding ==
    /\ ((pc = "returned" /\ last_node = "HybridRetriever")
           => /\ Double("near_one", WeightSum(state.weights), 0)
              /\ (state.configured = <<SemanticWeightCfg * 10, KeywordWeightCfg * 10>>
                  => WeightSum(state.weights) = Double("int", 1, 0)))
    /\ ((pc = "returned" /\ last_node = "combine_results")
           => FusedScoresAreWeightedSums(state.semantic_results, state.keyword_results,
                                         state.combined))

C30_Witness ==
    /\ pc = "returned"
    /\ last_node = "HybridRetriever"
    /\ state.configured = <<10, 30>>
    /\ state.weights.semantic_weight = Double("div", Double("int", 1, 0), Double("int", 4, 0))
    /\ WeightSum(state.weights) /= Double("int", 1, 0)
    /\ Double("near_one", WeightSum(state.weights), 0)

\* C31: in the list returned by retrieve no product id appears twice: a
\* product returned by both the semantic and the keyword search yields a
\* single match carrying both partial scores, for any two input result lists.
C31_RetrieveReturnsEachProductOnce ==
    LET results == state.results
        ArmScore(arm, pid) ==
            LET found == {i \in 1..Len(arm) : arm[i].product_id = pid}
            IN IF found = {} THEN 0
               ELSE arm[CHOOSE i \in found : \A k \in found : k <= i].score
    IN (pc = "returned" /\ last_node = "retrieve")
       => /\ \A i \in 1..Len(results), k \in 1..Len(results) :
                results[i].product_id = results[k].product_id => i = k
          /\ \A i \in 1..Len(results) :
                /\ results[i].semantic_score =
                      ArmScore(state.semantic_results, results[i].product_id)
                /\ results[i].keyword_score =
                      ArmScore(state.keyword_results, results[i].product_id)

C31_Witness ==
    /\ pc = "returned"
    /\ last_node = "retrieve"
    /\ Len(state.results) = 2
    /\ state.results[1].product_id = "p1"
    /\ state.results[1].semantic_score = 9000
    /\ state.results[1].keyword_score = 10000
    /\ \E i \in 1..Len(state.semantic_results) : state.semantic_results[i].product_id = "p1"
    /\ \E i \in 1..Len(state.keyword_results) : state.keyword_results[i].product_id = "p1"

\* C32: every match returned by retrieve has score >= min_score and
\* score >= (highest returned score - 0.3); the list is sorted by descending
\* score and has at most top_k entries; applying the threshold and the
\* adaptive cutoff again to the returned list leaves it unchanged.
C32_RetrieveFilteredSortedBounded ==
    LET results == state.results
        top == IF results = <<>> THEN 0 ELSE results[1].score
    IN (pc = "returned" /\ last_node = "retrieve")
       => /\ \A i \in 1..Len(results) :
                /\ results[i].score >= MinScore
                /\ \A k \in 1..Len(results) :
                      results[i].score >= results[k].score - AdaptiveGap
          /\ \A i \in 1..(Len(results) - 1) : results[i].score >= results[i + 1].score
          /\ Len(results) <= state.top_k
          /\ FilterScore(FilterScore(results, MinScore),
                         Max(MinScore, top - AdaptiveGap)) = results

C32_Witness ==
    /\ pc = "returned"
    /\ last_node = "retrieve"
    /\ state.top_k = TopK
    /\ state.semantic_results = <<Hit("p1", 9000)>>
    /\ state.keyword_results = <<Hit("p1", 10000), Hit("p2", 10000)>>
    /\ Len(state.results) = 1
    /\ state.results[1].product_id = "p1"
    /\ state.results[1].score = 9600

\* C33: for a candidate list of more than 2 items, re-ranking drops exactly
\* the candidates whose relevance score is below 0.3 and keeps every other
\* candidate with score = 0.5*original + 0.5*new, sorted by descending
\* score; when the relevance-scoring step fails, the candidate list is
\* returned unchanged and nothing is raised.
C33_RerankDropsExactlyLowRelevance ==
    [][LET results == state.results
           scores == state.rerank_reply.scores
           reranked == state'.reranked
           dropped == {i \in 1..Len(results) : i <= Len(scores) /\ scores[i] < RerankDrop}
           kept == (1..Len(results)) \ dropped
       IN (pc = "rerank" /\ Len(results) > 2)
          => /\ pc' = "returned"
             /\ IF state.rerank_reply.kind = "error" THEN reranked = results
                ELSE /\ Len(reranked) = Cardinality(kept)
                     /\ \A i \in kept : \E k \in 1..Len(reranked) :
                           /\ reranked[k].product_id = results[i].product_id
                           /\ reranked[k].score = (results[i].score + scores[i]) \div 2
                     /\ \A k \in 1..(Len(reranked) - 1) :
                           reranked[k].score >= reranked[k + 1].score]_vars

C35_GenerationRunsCountPlusOne ==
    /\ [](pc = "end" => gen_runs = state.regeneration_count + 1 /\ gen_runs <= 3)
    /\ [](pc = "reflection" => gen_runs = state.regeneration_count + 1)
    /\ []((pc \in GraphNodes /\ gen_runs >= 1)
            => pc \in {"generate_response", "reflection"})
    /\ [][/\ (pc = "generate_response" => pc' = "reflection" /\ gen_runs' = gen_runs + 1)
          /\ (pc = "reflection"
                => /\ pc' \in {"generate_response", "end"}
                   /\ gen_runs' = gen_runs
                   /\ (pc' = "generate_response"
                         <=> state'.regeneration_count = state.regeneration_count + 1))
          /\ (pc \in {"generate_response", "reflection"}
                => /\ stock' = stock
                   /\ effects' = effects
                   /\ state'.completed_steps = state.completed_steps
                   /\ state'.action_result = state.action_result)]_vars

C35_Witness ==
    /\ pc = "end"
    /\ gen_runs = 3
    /\ state.regeneration_count = 2
    /\ Len(state.completed_steps) = 2
    /\ Len(effects) > 0

\* C36: within one turn at most one unit of stock is reserved, for any
\* execution plan (plans that list meeting_planning more than once included)
\* and any number of regenerations: the side effects of a turn hold at most
\* one reservation.
C36_AtMostOneReservationPerTurn ==
    Cardinality({i \in DOMAIN effects : effects[i] = "reserve"}) <= 1

\* C37: after a turn that confirmed a meeting and reserved stock, a later
\* turn of the same session that runs the meeting handler with the same
\* persisted product, location, date and time slots (no new meeting entities
\* supplied) does not reserve a further unit of stock.
C37_ConfirmedMeetingNotReservedAgain ==
    [][(/\ pc = "meeting_planning"
        /\ state.entities = NoEntities
        /\ state.product_id = current_product_id
        /\ state.slots = ConfirmedMeetingSlots)
       => (stock' = stock /\ effects' = effects)]_vars

\* C38: when a meeting is confirmed, the calendar day used for the
\* confirmation and the calendar event is the same day that
\* validate_meeting_time checked for legality, for every accepted date format
\* (relative words, YYYY-MM-DD, DD.MM.YYYY, DD.MM): an event that is created
\* is on the day the validator checked.
C38_BookedDayIsCheckedDay ==
    (pc = "returned" /\ last_node = "meeting_date" /\ state.booked /= None)
    => state.booked = state.checked

\* C39: if the graph run of a turn raises (the turn is aborted),
\* process_message returns the fixed apology reply and leaves the session's
\* persisted slots and persisted product id exactly as they were before the
\* turn; after a successful turn the persisted product id is replaced only
\* by a non-null id, so it never reverts to null.
C39_AbortKeepsSessionAndIdNeverReverts ==
    [][/\ (pc \in GraphNodes => (current_slots' = current_slots
                                  /\ current_product_id' = current_product_id))
       /\ (pc = "aborted"
             => /\ pc' = "idle"
                /\ reply' = "apology_processing_error"
                /\ current_slots' = current_slots
                /\ current_product_id' = current_product_id
                /\ state' = initial_state(current_slots, current_product_id))
       /\ (pc = "end"
             => /\ current_product_id' \in {current_product_id, state.product_id}
                /\ (current_product_id' /= current_product_id
                      => Truthy(current_product_id'))
                /\ (Truthy(current_product_id) => Truthy(current_product_id')))]_vars

C39_Witness ==
    /\ pc = "idle"
    /\ turn = 1
    /\ reply = "apology_processing_error"
    /\ current_slots.product_id = "p9"
    /\ current_slots.meeting_location = "loc_x"
    /\ current_slots.meeting_date = None
    /\ current_product_id = "p9"

\* C40: on the plan path, a plan step whose action is outside the fixed
\* capability set is dispatched to the rag_search node (routing_decision
\* keeps the out-of-set value) and current_step still advances by 1, so the
\* node executed after the routing node is always one of the six graph nodes
\* and the plan loop still terminates (current_step never passes the length
\* of the plan).
C40_OutOfSetPlanStepGoesToRagSearch ==
    /\ [](pc \in GraphNodes => state.current_step <= Len(state.execution_plan.plan))
    /\ [][pc = "intelligent_router"
          => /\ pc' \in ValidNodes
             /\ (PlanStepPending(state)
                   => LET action == Get(state.execution_plan.plan[state.current_step + 1],
                                        "action", None)
                      IN /\ state'.routing_decision = action
                         /\ state'.current_step = state.current_step + 1
                         /\ pc' = IF action \in ValidNodes THEN action ELSE "rag_search")]_vars

C40_Witness ==
    /\ pc = "rag_search"
    /\ last_node = "intelligent_router"
    /\ state.routing_decision \notin ValidNodes
    /\ state.current_step = 2
    /\ state.completed_steps[1] \in ValidNodes
    /\ ext = NoCall

====
